---------------------------- MODULE Spec2Model ----------------------------
(***************************************************************************)
(* Tab Whisperer background service worker (src/background.js).            *)
(*                                                                         *)
(* The worker answers three commands (PROCESS_TABS, GET_LATEST_GROUPS,     *)
(* SAVE_SESSION) and the onInstalled event over chrome.storage.local.      *)
(* PROCESS_TABS runs the pipeline summarizeTab -> groupSummaries -> store. *)
(*                                                                         *)
(* Encoding of JavaScript values                                           *)
(*   string     a sequence of one-character strings, "ab" is <<"a","b">>,  *)
(*              so that concatenation, toLowerCase, trim, startsWith and a *)
(*              regular expression's substring test are computed           *)
(*   null       the number Null (-1) where the other values are numbers    *)
(*              (tabId, generatedAt); tab ids and clock readings are >= 0  *)
(*   object     a record; a property the object lacks is a field the       *)
(*              record lacks (tested with DOMAIN)                          *)
(*   a value an external collaborator returns is a record tagged by kind:  *)
(*              "throws" (the call throws or rejects), "null", "string",   *)
(*              "object"                                                   *)
(***************************************************************************)
EXTENDS Integers, Sequences, FiniteSets, TLC

VARIABLES
    storage,   \* chrome.storage.local: a function from the keys present to their values
    now,       \* the reading Date.now() gives at this moment
    call,      \* the function call under study in the specifications of one function
    result,    \* what that call returned
    handlers   \* the runs of the listeners started so far, each with its position,
               \* its locals and, once it has answered, its response

vars == <<storage, now, call, result, handlers>>

(***************************************************************************)
(* Bounds of the model                                                     *)
(***************************************************************************)
\* longest list of summaries handed to the keyword grouping in SpecGroup
MaxSummaries == 3
\* longest array of items in one category of an AI answer in SpecGroup
MaxItems == 2
\* Spec explores the runs of at most this many events (messages, install events,
\* changes of the theme toggle), the handlers of the messages overlapping or not
MaxHandlers == 2
\* the clock advances at most this far
MaxClock == 1

(***************************************************************************)
(* Program constants                                                       *)
(***************************************************************************)
\* fetchTabTextContent keeps the first 12000 characters of the page text
ContentLimit == 12000

Null == -1

(***************************************************************************)
(* Strings                                                                 *)
(***************************************************************************)
EmptyString == <<>>

(***************************************************************************)
(* String.prototype.toLowerCase (line 160, and 287)                        *)
(*                                                                         *)
(* The string is a sequence of UTF-16 code units. Lower-casing follows the *)
(* Unicode case mappings the engine carries, which do not depend on the    *)
(* locale: a capital letter becomes its small letter, in and outside ASCII *)
(* (the Kelvin sign U+212A becomes "k"); U+0130 becomes the two code units *)
(* "i" U+0307; a capital sigma U+03A3 becomes the final sigma U+03C2 when  *)
(* a cased letter stands before it and none after it, case-ignorable       *)
(* characters skipped, and U+03C3 otherwise. A character outside the basic *)
(* plane is a pair of surrogates and is lower-cased as a pair. The tables  *)
(* are those of Unicode 17.                                                *)
(***************************************************************************)
\* the code units String.prototype.toLowerCase changes to one other code unit,
\* in the order of their code points, and at the same place what each becomes
UpperCase ==
    <<"A", "B", "C", "D", "E", "F", "G", "H", "I", "J", "K", "L", "M", "N", "O", "P", "Q", "R",
      "S", "T", "U", "V", "W", "X", "Y", "Z", "U+00C0", "U+00C1", "U+00C2", "U+00C3", "U+00C4",
      "U+00C5", "U+00C6", "U+00C7", "U+00C8", "U+00C9", "U+00CA", "U+00CB", "U+00CC", "U+00CD",
      "U+00CE", "U+00CF", "U+00D0", "U+00D1", "U+00D2", "U+00D3", "U+00D4", "U+00D5", "U+00D6",
      "U+00D8", "U+00D9", "U+00DA", "U+00DB", "U+00DC", "U+00DD", "U+00DE", "U+0100", "U+0102",
      "U+0104", "U+0106", "U+0108", "U+010A", "U+010C", "U+010E", "U+0110", "U+0112", "U+0114",
      "U+0116", "U+0118", "U+011A", "U+011C", "U+011E", "U+0120", "U+0122", "U+0124", "U+0126",
      "U+0128", "U+012A", "U+012C", "U+012E", "U+0132", "U+0134", "U+0136", "U+0139", "U+013B",
      "U+013D", "U+013F", "U+0141", "U+0143", "U+0145", "U+0147", "U+014A", "U+014C", "U+014E",
      "U+0150", "U+0152", "U+0154", "U+0156", "U+0158", "U+015A", "U+015C", "U+015E", "U+0160",
      "U+0162", "U+0164", "U+0166", "U+0168", "U+016A", "U+016C", "U+016E", "U+0170", "U+0172",
      "U+0174", "U+0176", "U+0178", "U+0179", "U+017B", "U+017D", "U+0181", "U+0182", "U+0184",
      "U+0186", "U+0187", "U+0189", "U+018A", "U+018B", "U+018E", "U+018F", "U+0190", "U+0191",
      "U+0193", "U+0194", "U+0196", "U+0197", "U+0198", "U+019C", "U+019D", "U+019F", "U+01A0",
      "U+01A2", "U+01A4", "U+01A6", "U+01A7", "U+01A9", "U+01AC", "U+01AE", "U+01AF", "U+01B1",
      "U+01B2", "U+01B3", "U+01B5", "U+01B7", "U+01B8", "U+01BC", "U+01C4", "U+01C5", "U+01C7",
      "U+01C8", "U+01CA", "U+01CB", "U+01CD", "U+01CF", "U+01D1", "U+01D3", "U+01D5", "U+01D7",
      "U+01D9", "U+01DB", "U+01DE", "U+01E0", "U+01E2", "U+01E4", "U+01E6", "U+01E8", "U+01EA",
      "U+01EC", "U+01EE", "U+01F1", "U+01F2", "U+01F4", "U+01F6", "U+01F7", "U+01F8", "U+01FA",
      "U+01FC", "U+01FE", "U+0200", "U+0202", "U+0204", "U+0206", "U+0208", "U+020A", "U+020C",
      "U+020E", "U+0210", "U+0212", "U+0214", "U+0216", "U+0218", "U+021A", "U+021C", "U+021E",
      "U+0220", "U+0222", "U+0224", "U+0226", "U+0228", "U+022A", "U+022C", "U+022E", "U+0230",
      "U+0232", "U+023A", "U+023B", "U+023D", "U+023E", "U+0241", "U+0243", "U+0244", "U+0245",
      "U+0246", "U+0248", "U+024A", "U+024C", "U+024E", "U+0370", "U+0372", "U+0376", "U+037F",
      "U+0386", "U+0388", "U+0389", "U+038A", "U+038C", "U+038E", "U+038F", "U+0391", "U+0392",
      "U+0393", "U+0394", "U+0395", "U+0396", "U+0397", "U+0398", "U+0399", "U+039A", "U+039B",
      "U+039C", "U+039D", "U+039E", "U+039F", "U+03A0", "U+03A1", "U+03A3", "U+03A4", "U+03A5",
      "U+03A6", "U+03A7", "U+03A8", "U+03A9", "U+03AA", "U+03AB", "U+03CF", "U+03D8", "U+03DA",
      "U+03DC", "U+03DE", "U+03E0", "U+03E2", "U+03E4", "U+03E6", "U+03E8", "U+03EA", "U+03EC",
      "U+03EE", "U+03F4", "U+03F7", "U+03F9", "U+03FA", "U+03FD", "U+03FE", "U+03FF", "U+0400",
      "U+0401", "U+0402", "U+0403", "U+0404", "U+0405", "U+0406", "U+0407", "U+0408", "U+0409",
      "U+040A", "U+040B", "U+040C", "U+040D", "U+040E", "U+040F", "U+0410", "U+0411", "U+0412",
      "U+0413", "U+0414", "U+0415", "U+0416", "U+0417", "U+0418", "U+0419", "U+041A", "U+041B",
      "U+041C", "U+041D", "U+041E", "U+041F", "U+0420", "U+0421", "U+0422", "U+0423", "U+0424",
      "U+0425", "U+0426", "U+0427", "U+0428", "U+0429", "U+042A", "U+042B", "U+042C", "U+042D",
      "U+042E", "U+042F", "U+0460", "U+0462", "U+0464", "U+0466", "U+0468", "U+046A", "U+046C",
      "U+046E", "U+0470", "U+0472", "U+0474", "U+0476", "U+0478", "U+047A", "U+047C", "U+047E",
      "U+0480", "U+048A", "U+048C", "U+048E", "U+0490", "U+0492", "U+0494", "U+0496", "U+0498",
      "U+049A", "U+049C", "U+049E", "U+04A0", "U+04A2", "U+04A4", "U+04A6", "U+04A8", "U+04AA",
      "U+04AC", "U+04AE", "U+04B0", "U+04B2", "U+04B4", "U+04B6", "U+04B8", "U+04BA", "U+04BC",
      "U+04BE", "U+04C0", "U+04C1", "U+04C3", "U+04C5", "U+04C7", "U+04C9", "U+04CB", "U+04CD",
      "U+04D0", "U+04D2", "U+04D4", "U+04D6", "U+04D8", "U+04DA", "U+04DC", "U+04DE", "U+04E0",
      "U+04E2", "U+04E4", "U+04E6", "U+04E8", "U+04EA", "U+04EC", "U+04EE", "U+04F0", "U+04F2",
      "U+04F4", "U+04F6", "U+04F8", "U+04FA", "U+04FC", "U+04FE", "U+0500", "U+0502", "U+0504",
      "U+0506", "U+0508", "U+050A", "U+050C", "U+050E", "U+0510", "U+0512", "U+0514", "U+0516",
      "U+0518", "U+051A", "U+051C", "U+051E", "U+0520", "U+0522", "U+0524", "U+0526", "U+0528",
      "U+052A", "U+052C", "U+052E", "U+0531", "U+0532", "U+0533", "U+0534", "U+0535", "U+0536",
      "U+0537", "U+0538", "U+0539", "U+053A", "U+053B", "U+053C", "U+053D", "U+053E", "U+053F",
      "U+0540", "U+0541", "U+0542", "U+0543", "U+0544", "U+0545", "U+0546", "U+0547", "U+0548",
      "U+0549", "U+054A", "U+054B", "U+054C", "U+054D", "U+054E", "U+054F", "U+0550", "U+0551",
      "U+0552", "U+0553", "U+0554", "U+0555", "U+0556", "U+10A0", "U+10A1", "U+10A2", "U+10A3",
      "U+10A4", "U+10A5", "U+10A6", "U+10A7", "U+10A8", "U+10A9", "U+10AA", "U+10AB", "U+10AC",
      "U+10AD", "U+10AE", "U+10AF", "U+10B0", "U+10B1", "U+10B2", "U+10B3", "U+10B4", "U+10B5",
      "U+10B6", "U+10B7", "U+10B8", "U+10B9", "U+10BA", "U+10BB", "U+10BC", "U+10BD", "U+10BE",
      "U+10BF", "U+10C0", "U+10C1", "U+10C2", "U+10C3", "U+10C4", "U+10C5", "U+10C7", "U+10CD",
      "U+13A0", "U+13A1", "U+13A2", "U+13A3", "U+13A4", "U+13A5", "U+13A6", "U+13A7", "U+13A8",
      "U+13A9", "U+13AA", "U+13AB", "U+13AC", "U+13AD", "U+13AE", "U+13AF", "U+13B0", "U+13B1",
      "U+13B2", "U+13B3", "U+13B4", "U+13B5", "U+13B6", "U+13B7", "U+13B8", "U+13B9", "U+13BA",
      "U+13BB", "U+13BC", "U+13BD", "U+13BE", "U+13BF", "U+13C0", "U+13C1", "U+13C2", "U+13C3",
      "U+13C4", "U+13C5", "U+13C6", "U+13C7", "U+13C8", "U+13C9", "U+13CA", "U+13CB", "U+13CC",
      "U+13CD", "U+13CE", "U+13CF", "U+13D0", "U+13D1", "U+13D2", "U+13D3", "U+13D4", "U+13D5",
      "U+13D6", "U+13D7", "U+13D8", "U+13D9", "U+13DA", "U+13DB", "U+13DC", "U+13DD", "U+13DE",
      "U+13DF", "U+13E0", "U+13E1", "U+13E2", "U+13E3", "U+13E4", "U+13E5", "U+13E6", "U+13E7",
      "U+13E8", "U+13E9", "U+13EA", "U+13EB", "U+13EC", "U+13ED", "U+13EE", "U+13EF", "U+13F0",
      "U+13F1", "U+13F2", "U+13F3", "U+13F4", "U+13F5", "U+1C89", "U+1C90", "U+1C91", "U+1C92",
      "U+1C93", "U+1C94", "U+1C95", "U+1C96", "U+1C97", "U+1C98", "U+1C99", "U+1C9A", "U+1C9B",
      "U+1C9C", "U+1C9D", "U+1C9E", "U+1C9F", "U+1CA0", "U+1CA1", "U+1CA2", "U+1CA3", "U+1CA4",
      "U+1CA5", "U+1CA6", "U+1CA7", "U+1CA8", "U+1CA9", "U+1CAA", "U+1CAB", "U+1CAC", "U+1CAD",
      "U+1CAE", "U+1CAF", "U+1CB0", "U+1CB1", "U+1CB2", "U+1CB3", "U+1CB4", "U+1CB5", "U+1CB6",
      "U+1CB7", "U+1CB8", "U+1CB9", "U+1CBA", "U+1CBD", "U+1CBE", "U+1CBF", "U+1E00", "U+1E02",
      "U+1E04", "U+1E06", "U+1E08", "U+1E0A", "U+1E0C", "U+1E0E", "U+1E10", "U+1E12", "U+1E14",
      "U+1E16", "U+1E18", "U+1E1A", "U+1E1C", "U+1E1E", "U+1E20", "U+1E22", "U+1E24", "U+1E26",
      "U+1E28", "U+1E2A", "U+1E2C", "U+1E2E", "U+1E30", "U+1E32", "U+1E34", "U+1E36", "U+1E38",
      "U+1E3A", "U+1E3C", "U+1E3E", "U+1E40", "U+1E42", "U+1E44", "U+1E46", "U+1E48", "U+1E4A",
      "U+1E4C", "U+1E4E", "U+1E50", "U+1E52", "U+1E54", "U+1E56", "U+1E58", "U+1E5A", "U+1E5C",
      "U+1E5E", "U+1E60", "U+1E62", "U+1E64", "U+1E66", "U+1E68", "U+1E6A", "U+1E6C", "U+1E6E",
      "U+1E70", "U+1E72", "U+1E74", "U+1E76", "U+1E78", "U+1E7A", "U+1E7C", "U+1E7E", "U+1E80",
      "U+1E82", "U+1E84", "U+1E86", "U+1E88", "U+1E8A", "U+1E8C", "U+1E8E", "U+1E90", "U+1E92",
      "U+1E94", "U+1E9E", "U+1EA0", "U+1EA2", "U+1EA4", "U+1EA6", "U+1EA8", "U+1EAA", "U+1EAC",
      "U+1EAE", "U+1EB0", "U+1EB2", "U+1EB4", "U+1EB6", "U+1EB8", "U+1EBA", "U+1EBC", "U+1EBE",
      "U+1EC0", "U+1EC2", "U+1EC4", "U+1EC6", "U+1EC8", "U+1ECA", "U+1ECC", "U+1ECE", "U+1ED0",
      "U+1ED2", "U+1ED4", "U+1ED6", "U+1ED8", "U+1EDA", "U+1EDC", "U+1EDE", "U+1EE0", "U+1EE2",
      "U+1EE4", "U+1EE6", "U+1EE8", "U+1EEA", "U+1EEC", "U+1EEE", "U+1EF0", "U+1EF2", "U+1EF4",
      "U+1EF6", "U+1EF8", "U+1EFA", "U+1EFC", "U+1EFE", "U+1F08", "U+1F09", "U+1F0A", "U+1F0B",
      "U+1F0C", "U+1F0D", "U+1F0E", "U+1F0F", "U+1F18", "U+1F19", "U+1F1A", "U+1F1B", "U+1F1C",
      "U+1F1D", "U+1F28", "U+1F29", "U+1F2A", "U+1F2B", "U+1F2C", "U+1F2D", "U+1F2E", "U+1F2F",
      "U+1F38", "U+1F39", "U+1F3A", "U+1F3B", "U+1F3C", "U+1F3D", "U+1F3E", "U+1F3F", "U+1F48",
      "U+1F49", "U+1F4A", "U+1F4B", "U+1F4C", "U+1F4D", "U+1F59", "U+1F5B", "U+1F5D", "U+1F5F",
      "U+1F68", "U+1F69", "U+1F6A", "U+1F6B", "U+1F6C", "U+1F6D", "U+1F6E", "U+1F6F", "U+1F88",
      "U+1F89", "U+1F8A", "U+1F8B", "U+1F8C", "U+1F8D", "U+1F8E", "U+1F8F", "U+1F98", "U+1F99",
      "U+1F9A", "U+1F9B", "U+1F9C", "U+1F9D", "U+1F9E", "U+1F9F", "U+1FA8", "U+1FA9", "U+1FAA",
      "U+1FAB", "U+1FAC", "U+1FAD", "U+1FAE", "U+1FAF", "U+1FB8", "U+1FB9", "U+1FBA", "U+1FBB",
      "U+1FBC", "U+1FC8", "U+1FC9", "U+1FCA", "U+1FCB", "U+1FCC", "U+1FD8", "U+1FD9", "U+1FDA",
      "U+1FDB", "U+1FE8", "U+1FE9", "U+1FEA", "U+1FEB", "U+1FEC", "U+1FF8", "U+1FF9", "U+1FFA",
      "U+1FFB", "U+1FFC", "U+2126", "U+212A", "U+212B", "U+2132", "U+2160", "U+2161", "U+2162",
      "U+2163", "U+2164", "U+2165", "U+2166", "U+2167", "U+2168", "U+2169", "U+216A", "U+216B",
      "U+216C", "U+216D", "U+216E", "U+216F", "U+2183", "U+24B6", "U+24B7", "U+24B8", "U+24B9",
      "U+24BA", "U+24BB", "U+24BC", "U+24BD", "U+24BE", "U+24BF", "U+24C0", "U+24C1", "U+24C2",
      "U+24C3", "U+24C4", "U+24C5", "U+24C6", "U+24C7", "U+24C8", "U+24C9", "U+24CA", "U+24CB",
      "U+24CC", "U+24CD", "U+24CE", "U+24CF", "U+2C00", "U+2C01", "U+2C02", "U+2C03", "U+2C04",
      "U+2C05", "U+2C06", "U+2C07", "U+2C08", "U+2C09", "U+2C0A", "U+2C0B", "U+2C0C", "U+2C0D",
      "U+2C0E", "U+2C0F", "U+2C10", "U+2C11", "U+2C12", "U+2C13", "U+2C14", "U+2C15", "U+2C16",
      "U+2C17", "U+2C18", "U+2C19", "U+2C1A", "U+2C1B", "U+2C1C", "U+2C1D", "U+2C1E", "U+2C1F",
      "U+2C20", "U+2C21", "U+2C22", "U+2C23", "U+2C24", "U+2C25", "U+2C26", "U+2C27", "U+2C28",
      "U+2C29", "U+2C2A", "U+2C2B", "U+2C2C", "U+2C2D", "U+2C2E", "U+2C2F", "U+2C60", "U+2C62",
      "U+2C63", "U+2C64", "U+2C67", "U+2C69", "U+2C6B", "U+2C6D", "U+2C6E", "U+2C6F", "U+2C70",
      "U+2C72", "U+2C75", "U+2C7E", "U+2C7F", "U+2C80", "U+2C82", "U+2C84", "U+2C86", "U+2C88",
      "U+2C8A", "U+2C8C", "U+2C8E", "U+2C90", "U+2C92", "U+2C94", "U+2C96", "U+2C98", "U+2C9A",
      "U+2C9C", "U+2C9E", "U+2CA0", "U+2CA2", "U+2CA4", "U+2CA6", "U+2CA8", "U+2CAA", "U+2CAC",
      "U+2CAE", "U+2CB0", "U+2CB2", "U+2CB4", "U+2CB6", "U+2CB8", "U+2CBA", "U+2CBC", "U+2CBE",
      "U+2CC0", "U+2CC2", "U+2CC4", "U+2CC6", "U+2CC8", "U+2CCA", "U+2CCC", "U+2CCE", "U+2CD0",
      "U+2CD2", "U+2CD4", "U+2CD6", "U+2CD8", "U+2CDA", "U+2CDC", "U+2CDE", "U+2CE0", "U+2CE2",
      "U+2CEB", "U+2CED", "U+2CF2", "U+A640", "U+A642", "U+A644", "U+A646", "U+A648", "U+A64A",
      "U+A64C", "U+A64E", "U+A650", "U+A652", "U+A654", "U+A656", "U+A658", "U+A65A", "U+A65C",
      "U+A65E", "U+A660", "U+A662", "U+A664", "U+A666", "U+A668", "U+A66A", "U+A66C", "U+A680",
      "U+A682", "U+A684", "U+A686", "U+A688", "U+A68A", "U+A68C", "U+A68E", "U+A690", "U+A692",
      "U+A694", "U+A696", "U+A698", "U+A69A", "U+A722", "U+A724", "U+A726", "U+A728", "U+A72A",
      "U+A72C", "U+A72E", "U+A732", "U+A734", "U+A736", "U+A738", "U+A73A", "U+A73C", "U+A73E",
      "U+A740", "U+A742", "U+A744", "U+A746", "U+A748", "U+A74A", "U+A74C", "U+A74E", "U+A750",
      "U+A752", "U+A754", "U+A756", "U+A758", "U+A75A", "U+A75C", "U+A75E", "U+A760", "U+A762",
      "U+A764", "U+A766", "U+A768", "U+A76A", "U+A76C", "U+A76E", "U+A779", "U+A77B", "U+A77D",
      "U+A77E", "U+A780", "U+A782", "U+A784", "U+A786", "U+A78B", "U+A78D", "U+A790", "U+A792",
      "U+A796", "U+A798", "U+A79A", "U+A79C", "U+A79E", "U+A7A0", "U+A7A2", "U+A7A4", "U+A7A6",
      "U+A7A8", "U+A7AA", "U+A7AB", "U+A7AC", "U+A7AD", "U+A7AE", "U+A7B0", "U+A7B1", "U+A7B2",
      "U+A7B3", "U+A7B4", "U+A7B6", "U+A7B8", "U+A7BA", "U+A7BC", "U+A7BE", "U+A7C0", "U+A7C2",
      "U+A7C4", "U+A7C5", "U+A7C6", "U+A7C7", "U+A7C9", "U+A7CB", "U+A7CC", "U+A7CE", "U+A7D0",
      "U+A7D2", "U+A7D4", "U+A7D6", "U+A7D8", "U+A7DA", "U+A7DC", "U+A7F5", "U+FF21", "U+FF22",
      "U+FF23", "U+FF24", "U+FF25", "U+FF26", "U+FF27", "U+FF28", "U+FF29", "U+FF2A", "U+FF2B",
      "U+FF2C", "U+FF2D", "U+FF2E", "U+FF2F", "U+FF30", "U+FF31", "U+FF32", "U+FF33", "U+FF34",
      "U+FF35", "U+FF36", "U+FF37", "U+FF38", "U+FF39", "U+FF3A">>

LowerCase ==
    <<"a", "b", "c", "d", "e", "f", "g", "h", "i", "j", "k", "l", "m", "n", "o", "p", "q", "r",
      "s", "t", "u", "v", "w", "x", "y", "z", "U+00E0", "U+00E1", "U+00E2", "U+00E3", "U+00E4",
      "U+00E5", "U+00E6", "U+00E7", "U+00E8", "U+00E9", "U+00EA", "U+00EB", "U+00EC", "U+00ED",
      "U+00EE", "U+00EF", "U+00F0", "U+00F1", "U+00F2", "U+00F3", "U+00F4", "U+00F5", "U+00F6",
      "U+00F8", "U+00F9", "U+00FA", "U+00FB", "U+00FC", "U+00FD", "U+00FE", "U+0101", "U+0103",
      "U+0105", "U+0107", "U+0109", "U+010B", "U+010D", "U+010F", "U+0111", "U+0113", "U+0115",
      "U+0117", "U+0119", "U+011B", "U+011D", "U+011F", "U+0121", "U+0123", "U+0125", "U+0127",
      "U+0129", "U+012B", "U+012D", "U+012F", "U+0133", "U+0135", "U+0137", "U+013A", "U+013C",
      "U+013E", "U+0140", "U+0142", "U+0144", "U+0146", "U+0148", "U+014B", "U+014D", "U+014F",
      "U+0151", "U+0153", "U+0155", "U+0157", "U+0159", "U+015B", "U+015D", "U+015F", "U+0161",
      "U+0163", "U+0165", "U+0167", "U+0169", "U+016B", "U+016D", "U+016F", "U+0171", "U+0173",
      "U+0175", "U+0177", "U+00FF", "U+017A", "U+017C", "U+017E", "U+0253", "U+0183", "U+0185",
      "U+0254", "U+0188", "U+0256", "U+0257", "U+018C", "U+01DD", "U+0259", "U+025B", "U+0192",
      "U+0260", "U+0263", "U+0269", "U+0268", "U+0199", "U+026F", "U+0272", "U+0275", "U+01A1",
      "U+01A3", "U+01A5", "U+0280", "U+01A8", "U+0283", "U+01AD", "U+0288", "U+01B0", "U+028A",
      "U+028B", "U+01B4", "U+01B6", "U+0292", "U+01B9", "U+01BD", "U+01C6", "U+01C6", "U+01C9",
      "U+01C9", "U+01CC", "U+01CC", "U+01CE", "U+01D0", "U+01D2", "U+01D4", "U+01D6", "U+01D8",
      "U+01DA", "U+01DC", "U+01DF", "U+01E1", "U+01E3", "U+01E5", "U+01E7", "U+01E9", "U+01EB",
      "U+01ED", "U+01EF", "U+01F3", "U+01F3", "U+01F5", "U+0195", "U+01BF", "U+01F9", "U+01FB",
      "U+01FD", "U+01FF", "U+0201", "U+0203", "U+0205", "U+0207", "U+0209", "U+020B", "U+020D",
      "U+020F", "U+0211", "U+0213", "U+0215", "U+0217", "U+0219", "U+021B", "U+021D", "U+021F",
      "U+019E", "U+0223", "U+0225", "U+0227", "U+0229", "U+022B", "U+022D", "U+022F", "U+0231",
      "U+0233", "U+2C65", "U+023C", "U+019A", "U+2C66", "U+0242", "U+0180", "U+0289", "U+028C",
      "U+0247", "U+0249", "U+024B", "U+024D", "U+024F", "U+0371", "U+0373", "U+0377", "U+03F3",
      "U+03AC", "U+03AD", "U+03AE", "U+03AF", "U+03CC", "U+03CD", "U+03CE", "U+03B1", "U+03B2",
      "U+03B3", "U+03B4", "U+03B5", "U+03B6", "U+03B7", "U+03B8", "U+03B9", "U+03BA", "U+03BB",
      "U+03BC", "U+03BD", "U+03BE", "U+03BF", "U+03C0", "U+03C1", "U+03C3", "U+03C4", "U+03C5",
      "U+03C6", "U+03C7", "U+03C8", "U+03C9", "U+03CA", "U+03CB", "U+03D7", "U+03D9", "U+03DB",
      "U+03DD", "U+03DF", "U+03E1", "U+03E3", "U+03E5", "U+03E7", "U+03E9", "U+03EB", "U+03ED",
      "U+03EF", "U+03B8", "U+03F8", "U+03F2", "U+03FB", "U+037B", "U+037C", "U+037D", "U+0450",
      "U+0451", "U+0452", "U+0453", "U+0454", "U+0455", "U+0456", "U+0457", "U+0458", "U+0459",
      "U+045A", "U+045B", "U+045C", "U+045D", "U+045E", "U+045F", "U+0430", "U+0431", "U+0432",
      "U+0433", "U+0434", "U+0435", "U+0436", "U+0437", "U+0438", "U+0439", "U+043A", "U+043B",
      "U+043C", "U+043D", "U+043E", "U+043F", "U+0440", "U+0441", "U+0442", "U+0443", "U+0444",
      "U+0445", "U+0446", "U+0447", "U+0448", "U+0449", "U+044A", "U+044B", "U+044C", "U+044D",
      "U+044E", "U+044F", "U+0461", "U+0463", "U+0465", "U+0467", "U+0469", "U+046B", "U+046D",
      "U+046F", "U+0471", "U+0473", "U+0475", "U+0477", "U+0479", "U+047B", "U+047D", "U+047F",
      "U+0481", "U+048B", "U+048D", "U+048F", "U+0491", "U+0493", "U+0495", "U+0497", "U+0499",
      "U+049B", "U+049D", "U+049F", "U+04A1", "U+04A3", "U+04A5", "U+04A7", "U+04A9", "U+04AB",
      "U+04AD", "U+04AF", "U+04B1", "U+04B3", "U+04B5", "U+04B7", "U+04B9", "U+04BB", "U+04BD",
      "U+04BF", "U+04CF", "U+04C2", "U+04C4", "U+04C6", "U+04C8", "U+04CA", "U+04CC", "U+04CE",
      "U+04D1", "U+04D3", "U+04D5", "U+04D7", "U+04D9", "U+04DB", "U+04DD", "U+04DF", "U+04E1",
      "U+04E3", "U+04E5", "U+04E7", "U+04E9", "U+04EB", "U+04ED", "U+04EF", "U+04F1", "U+04F3",
      "U+04F5", "U+04F7", "U+04F9", "U+04FB", "U+04FD", "U+04FF", "U+0501", "U+0503", "U+0505",
      "U+0507", "U+0509", "U+050B", "U+050D", "U+050F", "U+0511", "U+0513", "U+0515", "U+0517",
      "U+0519", "U+051B", "U+051D", "U+051F", "U+0521", "U+0523", "U+0525", "U+0527", "U+0529",
      "U+052B", "U+052D", "U+052F", "U+0561", "U+0562", "U+0563", "U+0564", "U+0565", "U+0566",
      "U+0567", "U+0568", "U+0569", "U+056A", "U+056B", "U+056C", "U+056D", "U+056E", "U+056F",
      "U+0570", "U+0571", "U+0572", "U+0573", "U+0574", "U+0575", "U+0576", "U+0577", "U+0578",
      "U+0579", "U+057A", "U+057B", "U+057C", "U+057D", "U+057E", "U+057F", "U+0580", "U+0581",
      "U+0582", "U+0583", "U+0584", "U+0585", "U+0586", "U+2D00", "U+2D01", "U+2D02", "U+2D03",
      "U+2D04", "U+2D05", "U+2D06", "U+2D07", "U+2D08", "U+2D09", "U+2D0A", "U+2D0B", "U+2D0C",
      "U+2D0D", "U+2D0E", "U+2D0F", "U+2D10", "U+2D11", "U+2D12", "U+2D13", "U+2D14", "U+2D15",
      "U+2D16", "U+2D17", "U+2D18", "U+2D19", "U+2D1A", "U+2D1B", "U+2D1C", "U+2D1D", "U+2D1E",
      "U+2D1F", "U+2D20", "U+2D21", "U+2D22", "U+2D23", "U+2D24", "U+2D25", "U+2D27", "U+2D2D",
      "U+AB70", "U+AB71", "U+AB72", "U+AB73", "U+AB74", "U+AB75", "U+AB76", "U+AB77", "U+AB78",
      "U+AB79", "U+AB7A", "U+AB7B", "U+AB7C", "U+AB7D", "U+AB7E", "U+AB7F", "U+AB80", "U+AB81",
      "U+AB82", "U+AB83", "U+AB84", "U+AB85", "U+AB86", "U+AB87", "U+AB88", "U+AB89", "U+AB8A",
      "U+AB8B", "U+AB8C", "U+AB8D", "U+AB8E", "U+AB8F", "U+AB90", "U+AB91", "U+AB92", "U+AB93",
      "U+AB94", "U+AB95", "U+AB96", "U+AB97", "U+AB98", "U+AB99", "U+AB9A", "U+AB9B", "U+AB9C",
      "U+AB9D", "U+AB9E", "U+AB9F", "U+ABA0", "U+ABA1", "U+ABA2", "U+ABA3", "U+ABA4", "U+ABA5",
      "U+ABA6", "U+ABA7", "U+ABA8", "U+ABA9", "U+ABAA", "U+ABAB", "U+ABAC", "U+ABAD", "U+ABAE",
      "U+ABAF", "U+ABB0", "U+ABB1", "U+ABB2", "U+ABB3", "U+ABB4", "U+ABB5", "U+ABB6", "U+ABB7",
      "U+ABB8", "U+ABB9", "U+ABBA", "U+ABBB", "U+ABBC", "U+ABBD", "U+ABBE", "U+ABBF", "U+13F8",
      "U+13F9", "U+13FA", "U+13FB", "U+13FC", "U+13FD", "U+1C8A", "U+10D0", "U+10D1", "U+10D2",
      "U+10D3", "U+10D4", "U+10D5", "U+10D6", "U+10D7", "U+10D8", "U+10D9", "U+10DA", "U+10DB",
      "U+10DC", "U+10DD", "U+10DE", "U+10DF", "U+10E0", "U+10E1", "U+10E2", "U+10E3", "U+10E4",
      "U+10E5", "U+10E6", "U+10E7", "U+10E8", "U+10E9", "U+10EA", "U+10EB", "U+10EC", "U+10ED",
      "U+10EE", "U+10EF", "U+10F0", "U+10F1", "U+10F2", "U+10F3", "U+10F4", "U+10F5", "U+10F6",
      "U+10F7", "U+10F8", "U+10F9", "U+10FA", "U+10FD", "U+10FE", "U+10FF", "U+1E01", "U+1E03",
      "U+1E05", "U+1E07", "U+1E09", "U+1E0B", "U+1E0D", "U+1E0F", "U+1E11", "U+1E13", "U+1E15",
      "U+1E17", "U+1E19", "U+1E1B", "U+1E1D", "U+1E1F", "U+1E21", "U+1E23", "U+1E25", "U+1E27",
      "U+1E29", "U+1E2B", "U+1E2D", "U+1E2F", "U+1E31", "U+1E33", "U+1E35", "U+1E37", "U+1E39",
      "U+1E3B", "U+1E3D", "U+1E3F", "U+1E41", "U+1E43", "U+1E45", "U+1E47", "U+1E49", "U+1E4B",
      "U+1E4D", "U+1E4F", "U+1E51", "U+1E53", "U+1E55", "U+1E57", "U+1E59", "U+1E5B", "U+1E5D",
      "U+1E5F", "U+1E61", "U+1E63", "U+1E65", "U+1E67", "U+1E69", "U+1E6B", "U+1E6D", "U+1E6F",
      "U+1E71", "U+1E73", "U+1E75", "U+1E77", "U+1E79", "U+1E7B", "U+1E7D", "U+1E7F", "U+1E81",
      "U+1E83", "U+1E85", "U+1E87", "U+1E89", "U+1E8B", "U+1E8D", "U+1E8F", "U+1E91", "U+1E93",
      "U+1E95", "U+00DF", "U+1EA1", "U+1EA3", "U+1EA5", "U+1EA7", "U+1EA9", "U+1EAB", "U+1EAD",
      "U+1EAF", "U+1EB1", "U+1EB3", "U+1EB5", "U+1EB7", "U+1EB9", "U+1EBB", "U+1EBD", "U+1EBF",
      "U+1EC1", "U+1EC3", "U+1EC5", "U+1EC7", "U+1EC9", "U+1ECB", "U+1ECD", "U+1ECF", "U+1ED1",
      "U+1ED3", "U+1ED5", "U+1ED7", "U+1ED9", "U+1EDB", "U+1EDD", "U+1EDF", "U+1EE1", "U+1EE3",
      "U+1EE5", "U+1EE7", "U+1EE9", "U+1EEB", "U+1EED", "U+1EEF", "U+1EF1", "U+1EF3", "U+1EF5",
      "U+1EF7", "U+1EF9", "U+1EFB", "U+1EFD", "U+1EFF", "U+1F00", "U+1F01", "U+1F02", "U+1F03",
      "U+1F04", "U+1F05", "U+1F06", "U+1F07", "U+1F10", "U+1F11", "U+1F12", "U+1F13", "U+1F14",
      "U+1F15", "U+1F20", "U+1F21", "U+1F22", "U+1F23", "U+1F24", "U+1F25", "U+1F26", "U+1F27",
      "U+1F30", "U+1F31", "U+1F32", "U+1F33", "U+1F34", "U+1F35", "U+1F36", "U+1F37", "U+1F40",
      "U+1F41", "U+1F42", "U+1F43", "U+1F44", "U+1F45", "U+1F51", "U+1F53", "U+1F55", "U+1F57",
      "U+1F60", "U+1F61", "U+1F62", "U+1F63", "U+1F64", "U+1F65", "U+1F66", "U+1F67", "U+1F80",
      "U+1F81", "U+1F82", "U+1F83", "U+1F84", "U+1F85", "U+1F86", "U+1F87", "U+1F90", "U+1F91",
      "U+1F92", "U+1F93", "U+1F94", "U+1F95", "U+1F96", "U+1F97", "U+1FA0", "U+1FA1", "U+1FA2",
      "U+1FA3", "U+1FA4", "U+1FA5", "U+1FA6", "U+1FA7", "U+1FB0", "U+1FB1", "U+1F70", "U+1F71",
      "U+1FB3", "U+1F72", "U+1F73", "U+1F74", "U+1F75", "U+1FC3", "U+1FD0", "U+1FD1", "U+1F76",
      "U+1F77", "U+1FE0", "U+1FE1", "U+1F7A", "U+1F7B", "U+1FE5", "U+1F78", "U+1F79", "U+1F7C",
      "U+1F7D", "U+1FF3", "U+03C9", "k", "U+00E5", "U+214E", "U+2170", "U+2171", "U+2172",
      "U+2173", "U+2174", "U+2175", "U+2176", "U+2177", "U+2178", "U+2179", "U+217A", "U+217B",
      "U+217C", "U+217D", "U+217E", "U+217F", "U+2184", "U+24D0", "U+24D1", "U+24D2", "U+24D3",
      "U+24D4", "U+24D5", "U+24D6", "U+24D7", "U+24D8", "U+24D9", "U+24DA", "U+24DB", "U+24DC",
      "U+24DD", "U+24DE", "U+24DF", "U+24E0", "U+24E1", "U+24E2", "U+24E3", "U+24E4", "U+24E5",
      "U+24E6", "U+24E7", "U+24E8", "U+24E9", "U+2C30", "U+2C31", "U+2C32", "U+2C33", "U+2C34",
      "U+2C35", "U+2C36", "U+2C37", "U+2C38", "U+2C39", "U+2C3A", "U+2C3B", "U+2C3C", "U+2C3D",
      "U+2C3E", "U+2C3F", "U+2C40", "U+2C41", "U+2C42", "U+2C43", "U+2C44", "U+2C45", "U+2C46",
      "U+2C47", "U+2C48", "U+2C49", "U+2C4A", "U+2C4B", "U+2C4C", "U+2C4D", "U+2C4E", "U+2C4F",
      "U+2C50", "U+2C51", "U+2C52", "U+2C53", "U+2C54", "U+2C55", "U+2C56", "U+2C57", "U+2C58",
      "U+2C59", "U+2C5A", "U+2C5B", "U+2C5C", "U+2C5D", "U+2C5E", "U+2C5F", "U+2C61", "U+026B",
      "U+1D7D", "U+027D", "U+2C68", "U+2C6A", "U+2C6C", "U+0251", "U+0271", "U+0250", "U+0252",
      "U+2C73", "U+2C76", "U+023F", "U+0240", "U+2C81", "U+2C83", "U+2C85", "U+2C87", "U+2C89",
      "U+2C8B", "U+2C8D", "U+2C8F", "U+2C91", "U+2C93", "U+2C95", "U+2C97", "U+2C99", "U+2C9B",
      "U+2C9D", "U+2C9F", "U+2CA1", "U+2CA3", "U+2CA5", "U+2CA7", "U+2CA9", "U+2CAB", "U+2CAD",
      "U+2CAF", "U+2CB1", "U+2CB3", "U+2CB5", "U+2CB7", "U+2CB9", "U+2CBB", "U+2CBD", "U+2CBF",
      "U+2CC1", "U+2CC3", "U+2CC5", "U+2CC7", "U+2CC9", "U+2CCB", "U+2CCD", "U+2CCF", "U+2CD1",
      "U+2CD3", "U+2CD5", "U+2CD7", "U+2CD9", "U+2CDB", "U+2CDD", "U+2CDF", "U+2CE1", "U+2CE3",
      "U+2CEC", "U+2CEE", "U+2CF3", "U+A641", "U+A643", "U+A645", "U+A647", "U+A649", "U+A64B",
      "U+A64D", "U+A64F", "U+A651", "U+A653", "U+A655", "U+A657", "U+A659", "U+A65B", "U+A65D",
      "U+A65F", "U+A661", "U+A663", "U+A665", "U+A667", "U+A669", "U+A66B", "U+A66D", "U+A681",
      "U+A683", "U+A685", "U+A687", "U+A689", "U+A68B", "U+A68D", "U+A68F", "U+A691", "U+A693",
      "U+A695", "U+A697", "U+A699", "U+A69B", "U+A723", "U+A725", "U+A727", "U+A729", "U+A72B",
      "U+A72D", "U+A72F", "U+A733", "U+A735", "U+A737", "U+A739", "U+A73B", "U+A73D", "U+A73F",
      "U+A741", "U+A743", "U+A745", "U+A747", "U+A749", "U+A74B", "U+A74D", "U+A74F", "U+A751",
      "U+A753", "U+A755", "U+A757", "U+A759", "U+A75B", "U+A75D", "U+A75F", "U+A761", "U+A763",
      "U+A765", "U+A767", "U+A769", "U+A76B", "U+A76D", "U+A76F", "U+A77A", "U+A77C", "U+1D79",
      "U+A77F", "U+A781", "U+A783", "U+A785", "U+A787", "U+A78C", "U+0265", "U+A791", "U+A793",
      "U+A797", "U+A799", "U+A79B", "U+A79D", "U+A79F", "U+A7A1", "U+A7A3", "U+A7A5", "U+A7A7",
      "U+A7A9", "U+0266", "U+025C", "U+0261", "U+026C", "U+026A", "U+029E", "U+0287", "U+029D",
      "U+AB53", "U+A7B5", "U+A7B7", "U+A7B9", "U+A7BB", "U+A7BD", "U+A7BF", "U+A7C1", "U+A7C3",
      "U+A794", "U+0282", "U+1D8E", "U+A7C8", "U+A7CA", "U+0264", "U+A7CD", "U+A7CF", "U+A7D1",
      "U+A7D3", "U+A7D5", "U+A7D7", "U+A7D9", "U+A7DB", "U+019B", "U+A7F6", "U+FF41", "U+FF42",
      "U+FF43", "U+FF44", "U+FF45", "U+FF46", "U+FF47", "U+FF48", "U+FF49", "U+FF4A", "U+FF4B",
      "U+FF4C", "U+FF4D", "U+FF4E", "U+FF4F", "U+FF50", "U+FF51", "U+FF52", "U+FF53", "U+FF54",
      "U+FF55", "U+FF56", "U+FF57", "U+FF58", "U+FF59", "U+FF5A">>

\* the characters outside the basic plane that toLowerCase changes, each a
\* surrogate pair written as its two code units one after the other, and at the
\* same places what each becomes
AstralUpperCase ==
    <<"U+D801", "U+DC00", "U+D801", "U+DC01", "U+D801", "U+DC02", "U+D801", "U+DC03", "U+D801",
      "U+DC04", "U+D801", "U+DC05", "U+D801", "U+DC06", "U+D801", "U+DC07", "U+D801", "U+DC08",
      "U+D801", "U+DC09", "U+D801", "U+DC0A", "U+D801", "U+DC0B", "U+D801", "U+DC0C", "U+D801",
      "U+DC0D", "U+D801", "U+DC0E", "U+D801", "U+DC0F", "U+D801", "U+DC10", "U+D801", "U+DC11",
      "U+D801", "U+DC12", "U+D801", "U+DC13", "U+D801", "U+DC14", "U+D801", "U+DC15", "U+D801",
      "U+DC16", "U+D801", "U+DC17", "U+D801", "U+DC18", "U+D801", "U+DC19", "U+D801", "U+DC1A",
      "U+D801", "U+DC1B", "U+D801", "U+DC1C", "U+D801", "U+DC1D", "U+D801", "U+DC1E", "U+D801",
      "U+DC1F", "U+D801", "U+DC20", "U+D801", "U+DC21", "U+D801", "U+DC22", "U+D801", "U+DC23",
      "U+D801", "U+DC24", "U+D801", "U+DC25", "U+D801", "U+DC26", "U+D801", "U+DC27", "U+D801",
      "U+DCB0", "U+D801", "U+DCB1", "U+D801", "U+DCB2", "U+D801", "U+DCB3", "U+D801", "U+DCB4",
      "U+D801", "U+DCB5", "U+D801", "U+DCB6", "U+D801", "U+DCB7", "U+D801", "U+DCB8", "U+D801",
      "U+DCB9", "U+D801", "U+DCBA", "U+D801", "U+DCBB", "U+D801", "U+DCBC", "U+D801", "U+DCBD",
      "U+D801", "U+DCBE", "U+D801", "U+DCBF", "U+D801", "U+DCC0", "U+D801", "U+DCC1", "U+D801",
      "U+DCC2", "U+D801", "U+DCC3", "U+D801", "U+DCC4", "U+D801", "U+DCC5", "U+D801", "U+DCC6",
      "U+D801", "U+DCC7", "U+D801", "U+DCC8", "U+D801", "U+DCC9", "U+D801", "U+DCCA", "U+D801",
      "U+DCCB", "U+D801", "U+DCCC", "U+D801", "U+DCCD", "U+D801", "U+DCCE", "U+D801", "U+DCCF",
      "U+D801", "U+DCD0", "U+D801", "U+DCD1", "U+D801", "U+DCD2", "U+D801", "U+DCD3", "U+D801",
      "U+DD70", "U+D801", "U+DD71", "U+D801", "U+DD72", "U+D801", "U+DD73", "U+D801", "U+DD74",
      "U+D801", "U+DD75", "U+D801", "U+DD76", "U+D801", "U+DD77", "U+D801", "U+DD78", "U+D801",
      "U+DD79", "U+D801", "U+DD7A", "U+D801", "U+DD7C", "U+D801", "U+DD7D", "U+D801", "U+DD7E",
      "U+D801", "U+DD7F", "U+D801", "U+DD80", "U+D801", "U+DD81", "U+D801", "U+DD82", "U+D801",
      "U+DD83", "U+D801", "U+DD84", "U+D801", "U+DD85", "U+D801", "U+DD86", "U+D801", "U+DD87",
      "U+D801", "U+DD88", "U+D801", "U+DD89", "U+D801", "U+DD8A", "U+D801", "U+DD8C", "U+D801",
      "U+DD8D", "U+D801", "U+DD8E", "U+D801", "U+DD8F", "U+D801", "U+DD90", "U+D801", "U+DD91",
      "U+D801", "U+DD92", "U+D801", "U+DD94", "U+D801", "U+DD95", "U+D803", "U+DC80", "U+D803",
      "U+DC81", "U+D803", "U+DC82", "U+D803", "U+DC83", "U+D803", "U+DC84", "U+D803", "U+DC85",
      "U+D803", "U+DC86", "U+D803", "U+DC87", "U+D803", "U+DC88", "U+D803", "U+DC89", "U+D803",
      "U+DC8A", "U+D803", "U+DC8B", "U+D803", "U+DC8C", "U+D803", "U+DC8D", "U+D803", "U+DC8E",
      "U+D803", "U+DC8F", "U+D803", "U+DC90", "U+D803", "U+DC91", "U+D803", "U+DC92", "U+D803",
      "U+DC93", "U+D803", "U+DC94", "U+D803", "U+DC95", "U+D803", "U+DC96", "U+D803", "U+DC97",
      "U+D803", "U+DC98", "U+D803", "U+DC99", "U+D803", "U+DC9A", "U+D803", "U+DC9B", "U+D803",
      "U+DC9C", "U+D803", "U+DC9D", "U+D803", "U+DC9E", "U+D803", "U+DC9F", "U+D803", "U+DCA0",
      "U+D803", "U+DCA1", "U+D803", "U+DCA2", "U+D803", "U+DCA3", "U+D803", "U+DCA4", "U+D803",
      "U+DCA5", "U+D803", "U+DCA6", "U+D803", "U+DCA7", "U+D803", "U+DCA8", "U+D803", "U+DCA9",
      "U+D803", "U+DCAA", "U+D803", "U+DCAB", "U+D803", "U+DCAC", "U+D803", "U+DCAD", "U+D803",
      "U+DCAE", "U+D803", "U+DCAF", "U+D803", "U+DCB0", "U+D803", "U+DCB1", "U+D803", "U+DCB2",
      "U+D803", "U+DD50", "U+D803", "U+DD51", "U+D803", "U+DD52", "U+D803", "U+DD53", "U+D803",
      "U+DD54", "U+D803", "U+DD55", "U+D803", "U+DD56", "U+D803", "U+DD57", "U+D803", "U+DD58",
      "U+D803", "U+DD59", "U+D803", "U+DD5A", "U+D803", "U+DD5B", "U+D803", "U+DD5C", "U+D803",
      "U+DD5D", "U+D803", "U+DD5E", "U+D803", "U+DD5F", "U+D803", "U+DD60", "U+D803", "U+DD61",
      "U+D803", "U+DD62", "U+D803", "U+DD63", "U+D803", "U+DD64", "U+D803", "U+DD65", "U+D806",
      "U+DCA0", "U+D806", "U+DCA1", "U+D806", "U+DCA2", "U+D806", "U+DCA3", "U+D806", "U+DCA4",
      "U+D806", "U+DCA5", "U+D806", "U+DCA6", "U+D806", "U+DCA7", "U+D806", "U+DCA8", "U+D806",
      "U+DCA9", "U+D806", "U+DCAA", "U+D806", "U+DCAB", "U+D806", "U+DCAC", "U+D806", "U+DCAD",
      "U+D806", "U+DCAE", "U+D806", "U+DCAF", "U+D806", "U+DCB0", "U+D806", "U+DCB1", "U+D806",
      "U+DCB2", "U+D806", "U+DCB3", "U+D806", "U+DCB4", "U+D806", "U+DCB5", "U+D806", "U+DCB6",
      "U+D806", "U+DCB7", "U+D806", "U+DCB8", "U+D806", "U+DCB9", "U+D806", "U+DCBA", "U+D806",
      "U+DCBB", "U+D806", "U+DCBC", "U+D806", "U+DCBD", "U+D806", "U+DCBE", "U+D806", "U+DCBF",
      "U+D81B", "U+DE40", "U+D81B", "U+DE41", "U+D81B", "U+DE42", "U+D81B", "U+DE43", "U+D81B",
      "U+DE44", "U+D81B", "U+DE45", "U+D81B", "U+DE46", "U+D81B", "U+DE47", "U+D81B", "U+DE48",
      "U+D81B", "U+DE49", "U+D81B", "U+DE4A", "U+D81B", "U+DE4B", "U+D81B", "U+DE4C", "U+D81B",
      "U+DE4D", "U+D81B", "U+DE4E", "U+D81B", "U+DE4F", "U+D81B", "U+DE50", "U+D81B", "U+DE51",
      "U+D81B", "U+DE52", "U+D81B", "U+DE53", "U+D81B", "U+DE54", "U+D81B", "U+DE55", "U+D81B",
      "U+DE56", "U+D81B", "U+DE57", "U+D81B", "U+DE58", "U+D81B", "U+DE59", "U+D81B", "U+DE5A",
      "U+D81B", "U+DE5B", "U+D81B", "U+DE5C", "U+D81B", "U+DE5D", "U+D81B", "U+DE5E", "U+D81B",
      "U+DE5F", "U+D81B", "U+DEA0", "U+D81B", "U+DEA1", "U+D81B", "U+DEA2", "U+D81B", "U+DEA3",
      "U+D81B", "U+DEA4", "U+D81B", "U+DEA5", "U+D81B", "U+DEA6", "U+D81B", "U+DEA7", "U+D81B",
      "U+DEA8", "U+D81B", "U+DEA9", "U+D81B", "U+DEAA", "U+D81B", "U+DEAB", "U+D81B", "U+DEAC",
      "U+D81B", "U+DEAD", "U+D81B", "U+DEAE", "U+D81B", "U+DEAF", "U+D81B", "U+DEB0", "U+D81B",
      "U+DEB1", "U+D81B", "U+DEB2", "U+D81B", "U+DEB3", "U+D81B", "U+DEB4", "U+D81B", "U+DEB5",
      "U+D81B", "U+DEB6", "U+D81B", "U+DEB7", "U+D81B", "U+DEB8", "U+D83A", "U+DD00", "U+D83A",
      "U+DD01", "U+D83A", "U+DD02", "U+D83A", "U+DD03", "U+D83A", "U+DD04", "U+D83A", "U+DD05",
      "U+D83A", "U+DD06", "U+D83A", "U+DD07", "U+D83A", "U+DD08", "U+D83A", "U+DD09", "U+D83A",
      "U+DD0A", "U+D83A", "U+DD0B", "U+D83A", "U+DD0C", "U+D83A", "U+DD0D", "U+D83A", "U+DD0E",
      "U+D83A", "U+DD0F", "U+D83A", "U+DD10", "U+D83A", "U+DD11", "U+D83A", "U+DD12", "U+D83A",
      "U+DD13", "U+D83A", "U+DD14", "U+D83A", "U+DD15", "U+D83A", "U+DD16", "U+D83A", "U+DD17",
      "U+D83A", "U+DD18", "U+D83A", "U+DD19", "U+D83A", "U+DD1A", "U+D83A", "U+DD1B", "U+D83A",
      "U+DD1C", "U+D83A", "U+DD1D", "U+D83A", "U+DD1E", "U+D83A", "U+DD1F", "U+D83A", "U+DD20",
      "U+D83A", "U+DD21">>

AstralLowerCase ==
    <<"U+D801", "U+DC28", "U+D801", "U+DC29", "U+D801", "U+DC2A", "U+D801", "U+DC2B", "U+D801",
      "U+DC2C", "U+D801", "U+DC2D", "U+D801", "U+DC2E", "U+D801", "U+DC2F", "U+D801", "U+DC30",
      "U+D801", "U+DC31", "U+D801", "U+DC32", "U+D801", "U+DC33", "U+D801", "U+DC34", "U+D801",
      "U+DC35", "U+D801", "U+DC36", "U+D801", "U+DC37", "U+D801", "U+DC38", "U+D801", "U+DC39",
      "U+D801", "U+DC3A", "U+D801", "U+DC3B", "U+D801", "U+DC3C", "U+D801", "U+DC3D", "U+D801",
      "U+DC3E", "U+D801", "U+DC3F", "U+D801", "U+DC40", "U+D801", "U+DC41", "U+D801", "U+DC42",
      "U+D801", "U+DC43", "U+D801", "U+DC44", "U+D801", "U+DC45", "U+D801", "U+DC46", "U+D801",
      "U+DC47", "U+D801", "U+DC48", "U+D801", "U+DC49", "U+D801", "U+DC4A", "U+D801", "U+DC4B",
      "U+D801", "U+DC4C", "U+D801", "U+DC4D", "U+D801", "U+DC4E", "U+D801", "U+DC4F", "U+D801",
      "U+DCD8", "U+D801", "U+DCD9", "U+D801", "U+DCDA", "U+D801", "U+DCDB", "U+D801", "U+DCDC",
      "U+D801", "U+DCDD", "U+D801", "U+DCDE", "U+D801", "U+DCDF", "U+D801", "U+DCE0", "U+D801",
      "U+DCE1", "U+D801", "U+DCE2", "U+D801", "U+DCE3", "U+D801", "U+DCE4", "U+D801", "U+DCE5",
      "U+D801", "U+DCE6", "U+D801", "U+DCE7", "U+D801", "U+DCE8", "U+D801", "U+DCE9", "U+D801",
      "U+DCEA", "U+D801", "U+DCEB", "U+D801", "U+DCEC", "U+D801", "U+DCED", "U+D801", "U+DCEE",
      "U+D801", "U+DCEF", "U+D801", "U+DCF0", "U+D801", "U+DCF1", "U+D801", "U+DCF2", "U+D801",
      "U+DCF3", "U+D801", "U+DCF4", "U+D801", "U+DCF5", "U+D801", "U+DCF6", "U+D801", "U+DCF7",
      "U+D801", "U+DCF8", "U+D801", "U+DCF9", "U+D801", "U+DCFA", "U+D801", "U+DCFB", "U+D801",
      "U+DD97", "U+D801", "U+DD98", "U+D801", "U+DD99", "U+D801", "U+DD9A", "U+D801", "U+DD9B",
      "U+D801", "U+DD9C", "U+D801", "U+DD9D", "U+D801", "U+DD9E", "U+D801", "U+DD9F", "U+D801",
      "U+DDA0", "U+D801", "U+DDA1", "U+D801", "U+DDA3", "U+D801", "U+DDA4", "U+D801", "U+DDA5",
      "U+D801", "U+DDA6", "U+D801", "U+DDA7", "U+D801", "U+DDA8", "U+D801", "U+DDA9", "U+D801",
      "U+DDAA", "U+D801", "U+DDAB", "U+D801", "U+DDAC", "U+D801", "U+DDAD", "U+D801", "U+DDAE",
      "U+D801", "U+DDAF", "U+D801", "U+DDB0", "U+D801", "U+DDB1", "U+D801", "U+DDB3", "U+D801",
      "U+DDB4", "U+D801", "U+DDB5", "U+D801", "U+DDB6", "U+D801", "U+DDB7", "U+D801", "U+DDB8",
      "U+D801", "U+DDB9", "U+D801", "U+DDBB", "U+D801", "U+DDBC", "U+D803", "U+DCC0", "U+D803",
      "U+DCC1", "U+D803", "U+DCC2", "U+D803", "U+DCC3", "U+D803", "U+DCC4", "U+D803", "U+DCC5",
      "U+D803", "U+DCC6", "U+D803", "U+DCC7", "U+D803", "U+DCC8", "U+D803", "U+DCC9", "U+D803",
      "U+DCCA", "U+D803", "U+DCCB", "U+D803", "U+DCCC", "U+D803", "U+DCCD", "U+D803", "U+DCCE",
      "U+D803", "U+DCCF", "U+D803", "U+DCD0", "U+D803", "U+DCD1", "U+D803", "U+DCD2", "U+D803",
      "U+DCD3", "U+D803", "U+DCD4", "U+D803", "U+DCD5", "U+D803", "U+DCD6", "U+D803", "U+DCD7",
      "U+D803", "U+DCD8", "U+D803", "U+DCD9", "U+D803", "U+DCDA", "U+D803", "U+DCDB", "U+D803",
      "U+DCDC", "U+D803", "U+DCDD", "U+D803", "U+DCDE", "U+D803", "U+DCDF", "U+D803", "U+DCE0",
      "U+D803", "U+DCE1", "U+D803", "U+DCE2", "U+D803", "U+DCE3", "U+D803", "U+DCE4", "U+D803",
      "U+DCE5", "U+D803", "U+DCE6", "U+D803", "U+DCE7", "U+D803", "U+DCE8", "U+D803", "U+DCE9",
      "U+D803", "U+DCEA", "U+D803", "U+DCEB", "U+D803", "U+DCEC", "U+D803", "U+DCED", "U+D803",
      "U+DCEE", "U+D803", "U+DCEF", "U+D803", "U+DCF0", "U+D803", "U+DCF1", "U+D803", "U+DCF2",
      "U+D803", "U+DD70", "U+D803", "U+DD71", "U+D803", "U+DD72", "U+D803", "U+DD73", "U+D803",
      "U+DD74", "U+D803", "U+DD75", "U+D803", "U+DD76", "U+D803", "U+DD77", "U+D803", "U+DD78",
      "U+D803", "U+DD79", "U+D803", "U+DD7A", "U+D803", "U+DD7B", "U+D803", "U+DD7C", "U+D803",
      "U+DD7D", "U+D803", "U+DD7E", "U+D803", "U+DD7F", "U+D803", "U+DD80", "U+D803", "U+DD81",
      "U+D803", "U+DD82", "U+D803", "U+DD83", "U+D803", "U+DD84", "U+D803", "U+DD85", "U+D806",
      "U+DCC0", "U+D806", "U+DCC1", "U+D806", "U+DCC2", "U+D806", "U+DCC3", "U+D806", "U+DCC4",
      "U+D806", "U+DCC5", "U+D806", "U+DCC6", "U+D806", "U+DCC7", "U+D806", "U+DCC8", "U+D806",
      "U+DCC9", "U+D806", "U+DCCA", "U+D806", "U+DCCB", "U+D806", "U+DCCC", "U+D806", "U+DCCD",
      "U+D806", "U+DCCE", "U+D806", "U+DCCF", "U+D806", "U+DCD0", "U+D806", "U+DCD1", "U+D806",
      "U+DCD2", "U+D806", "U+DCD3", "U+D806", "U+DCD4", "U+D806", "U+DCD5", "U+D806", "U+DCD6",
      "U+D806", "U+DCD7", "U+D806", "U+DCD8", "U+D806", "U+DCD9", "U+D806", "U+DCDA", "U+D806",
      "U+DCDB", "U+D806", "U+DCDC", "U+D806", "U+DCDD", "U+D806", "U+DCDE", "U+D806", "U+DCDF",
      "U+D81B", "U+DE60", "U+D81B", "U+DE61", "U+D81B", "U+DE62", "U+D81B", "U+DE63", "U+D81B",
      "U+DE64", "U+D81B", "U+DE65", "U+D81B", "U+DE66", "U+D81B", "U+DE67", "U+D81B", "U+DE68",
      "U+D81B", "U+DE69", "U+D81B", "U+DE6A", "U+D81B", "U+DE6B", "U+D81B", "U+DE6C", "U+D81B",
      "U+DE6D", "U+D81B", "U+DE6E", "U+D81B", "U+DE6F", "U+D81B", "U+DE70", "U+D81B", "U+DE71",
      "U+D81B", "U+DE72", "U+D81B", "U+DE73", "U+D81B", "U+DE74", "U+D81B", "U+DE75", "U+D81B",
      "U+DE76", "U+D81B", "U+DE77", "U+D81B", "U+DE78", "U+D81B", "U+DE79", "U+D81B", "U+DE7A",
      "U+D81B", "U+DE7B", "U+D81B", "U+DE7C", "U+D81B", "U+DE7D", "U+D81B", "U+DE7E", "U+D81B",
      "U+DE7F", "U+D81B", "U+DEBB", "U+D81B", "U+DEBC", "U+D81B", "U+DEBD", "U+D81B", "U+DEBE",
      "U+D81B", "U+DEBF", "U+D81B", "U+DEC0", "U+D81B", "U+DEC1", "U+D81B", "U+DEC2", "U+D81B",
      "U+DEC3", "U+D81B", "U+DEC4", "U+D81B", "U+DEC5", "U+D81B", "U+DEC6", "U+D81B", "U+DEC7",
      "U+D81B", "U+DEC8", "U+D81B", "U+DEC9", "U+D81B", "U+DECA", "U+D81B", "U+DECB", "U+D81B",
      "U+DECC", "U+D81B", "U+DECD", "U+D81B", "U+DECE", "U+D81B", "U+DECF", "U+D81B", "U+DED0",
      "U+D81B", "U+DED1", "U+D81B", "U+DED2", "U+D81B", "U+DED3", "U+D83A", "U+DD22", "U+D83A",
      "U+DD23", "U+D83A", "U+DD24", "U+D83A", "U+DD25", "U+D83A", "U+DD26", "U+D83A", "U+DD27",
      "U+D83A", "U+DD28", "U+D83A", "U+DD29", "U+D83A", "U+DD2A", "U+D83A", "U+DD2B", "U+D83A",
      "U+DD2C", "U+D83A", "U+DD2D", "U+D83A", "U+DD2E", "U+D83A", "U+DD2F", "U+D83A", "U+DD30",
      "U+D83A", "U+DD31", "U+D83A", "U+DD32", "U+D83A", "U+DD33", "U+D83A", "U+DD34", "U+D83A",
      "U+DD35", "U+D83A", "U+DD36", "U+D83A", "U+DD37", "U+D83A", "U+DD38", "U+D83A", "U+DD39",
      "U+D83A", "U+DD3A", "U+D83A", "U+DD3B", "U+D83A", "U+DD3C", "U+D83A", "U+DD3D", "U+D83A",
      "U+DD3E", "U+D83A", "U+DD3F", "U+D83A", "U+DD40", "U+D83A", "U+DD41", "U+D83A", "U+DD42",
      "U+D83A", "U+DD43">>

\* the code units with the property Case_Ignorable
CaseIgnorable ==
    {"'", ".", ":", "^", "U+0060", "U+00A8", "U+00AD", "U+00AF", "U+00B4", "U+00B7", "U+00B8",
     "U+02B0", "U+02B1", "U+02B2", "U+02B3", "U+02B4", "U+02B5", "U+02B6", "U+02B7", "U+02B8",
     "U+02B9", "U+02BA", "U+02BB", "U+02BC", "U+02BD", "U+02BE", "U+02BF", "U+02C0", "U+02C1",
     "U+02C2", "U+02C3", "U+02C4", "U+02C5", "U+02C6", "U+02C7", "U+02C8", "U+02C9", "U+02CA",
     "U+02CB", "U+02CC", "U+02CD", "U+02CE", "U+02CF", "U+02D0", "U+02D1", "U+02D2", "U+02D3",
     "U+02D4", "U+02D5", "U+02D6", "U+02D7", "U+02D8", "U+02D9", "U+02DA", "U+02DB", "U+02DC",
     "U+02DD", "U+02DE", "U+02DF", "U+02E0", "U+02E1", "U+02E2", "U+02E3", "U+02E4", "U+02E5",
     "U+02E6", "U+02E7", "U+02E8", "U+02E9", "U+02EA", "U+02EB", "U+02EC", "U+02ED", "U+02EE",
     "U+02EF", "U+02F0", "U+02F1", "U+02F2", "U+02F3", "U+02F4", "U+02F5", "U+02F6", "U+02F7",
     "U+02F8", "U+02F9", "U+02FA", "U+02FB", "U+02FC", "U+02FD", "U+02FE", "U+02FF", "U+0300",
     "U+0301", "U+0302", "U+0303", "U+0304", "U+0305", "U+0306", "U+0307", "U+0308", "U+0309",
     "U+030A", "U+030B", "U+030C", "U+030D", "U+030E", "U+030F", "U+0310", "U+0311", "U+0312",
     "U+0313", "U+0314", "U+0315", "U+0316", "U+0317", "U+0318", "U+0319", "U+031A", "U+031B",
     "U+031C", "U+031D", "U+031E", "U+031F", "U+0320", "U+0321", "U+0322", "U+0323", "U+0324",
     "U+0325", "U+0326", "U+0327", "U+0328", "U+0329", "U+032A", "U+032B", "U+032C", "U+032D",
     "U+032E", "U+032F", "U+0330", "U+0331", "U+0332", "U+0333", "U+0334", "U+0335", "U+0336",
     "U+0337", "U+0338", "U+0339", "U+033A", "U+033B", "U+033C", "U+033D", "U+033E", "U+033F",
     "U+0340", "U+0341", "U+0342", "U+0343", "U+0344", "U+0345", "U+0346", "U+0347", "U+0348",
     "U+0349", "U+034A", "U+034B", "U+034C", "U+034D", "U+034E", "U+034F", "U+0350", "U+0351",
     "U+0352", "U+0353", "U+0354", "U+0355", "U+0356", "U+0357", "U+0358", "U+0359", "U+035A",
     "U+035B", "U+035C", "U+035D", "U+035E", "U+035F", "U+0360", "U+0361", "U+0362", "U+0363",
     "U+0364", "U+0365", "U+0366", "U+0367", "U+0368", "U+0369", "U+036A", "U+036B", "U+036C",
     "U+036D", "U+036E", "U+036F", "U+0374", "U+0375", "U+037A", "U+0384", "U+0385", "U+0387",
     "U+0483", "U+0484", "U+0485", "U+0486", "U+0487", "U+0488", "U+0489", "U+0559", "U+055F",
     "U+0591", "U+0592", "U+0593", "U+0594", "U+0595", "U+0596", "U+0597", "U+0598", "U+0599",
     "U+059A", "U+059B", "U+059C", "U+059D", "U+059E", "U+059F", "U+05A0", "U+05A1", "U+05A2",
     "U+05A3", "U+05A4", "U+05A5", "U+05A6", "U+05A7", "U+05A8", "U+05A9", "U+05AA", "U+05AB",
     "U+05AC", "U+05AD", "U+05AE", "U+05AF", "U+05B0", "U+05B1", "U+05B2", "U+05B3", "U+05B4",
     "U+05B5", "U+05B6", "U+05B7", "U+05B8", "U+05B9", "U+05BA", "U+05BB", "U+05BC", "U+05BD",
     "U+05BF", "U+05C1", "U+05C2", "U+05C4", "U+05C5", "U+05C7", "U+05F4", "U+0600", "U+0601",
     "U+0602", "U+0603", "U+0604", "U+0605", "U+0610", "U+0611", "U+0612", "U+0613", "U+0614",
     "U+0615", "U+0616", "U+0617", "U+0618", "U+0619", "U+061A", "U+061C", "U+0640", "U+064B",
     "U+064C", "U+064D", "U+064E", "U+064F", "U+0650", "U+0651", "U+0652", "U+0653", "U+0654",
     "U+0655", "U+0656", "U+0657", "U+0658", "U+0659", "U+065A", "U+065B", "U+065C", "U+065D",
     "U+065E", "U+065F", "U+0670", "U+06D6", "U+06D7", "U+06D8", "U+06D9", "U+06DA", "U+06DB",
     "U+06DC", "U+06DD", "U+06DF", "U+06E0", "U+06E1", "U+06E2", "U+06E3", "U+06E4", "U+06E5",
     "U+06E6", "U+06E7", "U+06E8", "U+06EA", "U+06EB", "U+06EC", "U+06ED", "U+070F", "U+0711",
     "U+0730", "U+0731", "U+0732", "U+0733", "U+0734", "U+0735", "U+0736", "U+0737", "U+0738",
     "U+0739", "U+073A", "U+073B", "U+073C", "U+073D", "U+073E", "U+073F", "U+0740", "U+0741",
     "U+0742", "U+0743", "U+0744", "U+0745", "U+0746", "U+0747", "U+0748", "U+0749", "U+074A",
     "U+07A6", "U+07A7", "U+07A8", "U+07A9", "U+07AA", "U+07AB", "U+07AC", "U+07AD", "U+07AE",
     "U+07AF", "U+07B0", "U+07EB", "U+07EC", "U+07ED", "U+07EE", "U+07EF", "U+07F0", "U+07F1",
     "U+07F2", "U+07F3", "U+07F4", "U+07F5", "U+07FA", "U+07FD", "U+0816", "U+0817", "U+0818",
     "U+0819", "U+081A", "U+081B", "U+081C", "U+081D", "U+081E", "U+081F", "U+0820", "U+0821",
     "U+0822", "U+0823", "U+0824", "U+0825", "U+0826", "U+0827", "U+0828", "U+0829", "U+082A",
     "U+082B", "U+082C", "U+082D", "U+0859", "U+085A", "U+085B", "U+0888", "U+0890", "U+0891",
     "U+0897", "U+0898", "U+0899", "U+089A", "U+089B", "U+089C", "U+089D", "U+089E", "U+089F",
     "U+08C9", "U+08CA", "U+08CB", "U+08CC", "U+08CD", "U+08CE", "U+08CF", "U+08D0", "U+08D1",
     "U+08D2", "U+08D3", "U+08D4", "U+08D5", "U+08D6", "U+08D7", "U+08D8", "U+08D9", "U+08DA",
     "U+08DB", "U+08DC", "U+08DD", "U+08DE", "U+08DF", "U+08E0", "U+08E1", "U+08E2", "U+08E3",
     "U+08E4", "U+08E5", "U+08E6", "U+08E7", "U+08E8", "U+08E9", "U+08EA", "U+08EB", "U+08EC",
     "U+08ED", "U+08EE", "U+08EF", "U+08F0", "U+08F1", "U+08F2", "U+08F3", "U+08F4", "U+08F5",
     "U+08F6", "U+08F7", "U+08F8", "U+08F9", "U+08FA", "U+08FB", "U+08FC", "U+08FD", "U+08FE",
     "U+08FF", "U+0900", "U+0901", "U+0902", "U+093A", "U+093C", "U+0941", "U+0942", "U+0943",
     "U+0944", "U+0945", "U+0946", "U+0947", "U+0948", "U+094D", "U+0951", "U+0952", "U+0953",
     "U+0954", "U+0955", "U+0956", "U+0957", "U+0962", "U+0963", "U+0971", "U+0981", "U+09BC",
     "U+09C1", "U+09C2", "U+09C3", "U+09C4", "U+09CD", "U+09E2", "U+09E3", "U+09FE", "U+0A01",
     "U+0A02", "U+0A3C", "U+0A41", "U+0A42", "U+0A47", "U+0A48", "U+0A4B", "U+0A4C", "U+0A4D",
     "U+0A51", "U+0A70", "U+0A71", "U+0A75", "U+0A81", "U+0A82", "U+0ABC", "U+0AC1", "U+0AC2",
     "U+0AC3", "U+0AC4", "U+0AC5", "U+0AC7", "U+0AC8", "U+0ACD", "U+0AE2", "U+0AE3", "U+0AFA",
     "U+0AFB", "U+0AFC", "U+0AFD", "U+0AFE", "U+0AFF", "U+0B01", "U+0B3C", "U+0B3F", "U+0B41",
     "U+0B42", "U+0B43", "U+0B44", "U+0B4D", "U+0B55", "U+0B56", "U+0B62", "U+0B63", "U+0B82",
     "U+0BC0", "U+0BCD", "U+0C00", "U+0C04", "U+0C3C", "U+0C3E", "U+0C3F", "U+0C40", "U+0C46",
     "U+0C47", "U+0C48", "U+0C4A", "U+0C4B", "U+0C4C", "U+0C4D", "U+0C55", "U+0C56", "U+0C62",
     "U+0C63", "U+0C81", "U+0CBC", "U+0CBF", "U+0CC6", "U+0CCC", "U+0CCD", "U+0CE2", "U+0CE3",
     "U+0D00", "U+0D01", "U+0D3B", "U+0D3C", "U+0D41", "U+0D42", "U+0D43", "U+0D44", "U+0D4D",
     "U+0D62", "U+0D63", "U+0D81", "U+0DCA", "U+0DD2", "U+0DD3", "U+0DD4", "U+0DD6", "U+0E31",
     "U+0E34", "U+0E35", "U+0E36", "U+0E37", "U+0E38", "U+0E39", "U+0E3A", "U+0E46", "U+0E47",
     "U+0E48", "U+0E49", "U+0E4A", "U+0E4B", "U+0E4C", "U+0E4D", "U+0E4E", "U+0EB1", "U+0EB4",
     "U+0EB5", "U+0EB6", "U+0EB7", "U+0EB8", "U+0EB9", "U+0EBA", "U+0EBB", "U+0EBC", "U+0EC6",
     "U+0EC8", "U+0EC9", "U+0ECA", "U+0ECB", "U+0ECC", "U+0ECD", "U+0ECE", "U+0F18", "U+0F19",
     "U+0F35", "U+0F37", "U+0F39", "U+0F71", "U+0F72", "U+0F73", "U+0F74", "U+0F75", "U+0F76",
     "U+0F77", "U+0F78", "U+0F79", "U+0F7A", "U+0F7B", "U+0F7C", "U+0F7D", "U+0F7E", "U+0F80",
     "U+0F81", "U+0F82", "U+0F83", "U+0F84", "U+0F86", "U+0F87", "U+0F8D", "U+0F8E", "U+0F8F",
     "U+0F90", "U+0F91", "U+0F92", "U+0F93", "U+0F94", "U+0F95", "U+0F96", "U+0F97", "U+0F99",
     "U+0F9A", "U+0F9B", "U+0F9C", "U+0F9D", "U+0F9E", "U+0F9F", "U+0FA0", "U+0FA1", "U+0FA2",
     "U+0FA3", "U+0FA4", "U+0FA5", "U+0FA6", "U+0FA7", "U+0FA8", "U+0FA9", "U+0FAA", "U+0FAB",
     "U+0FAC", "U+0FAD", "U+0FAE", "U+0FAF", "U+0FB0", "U+0FB1", "U+0FB2", "U+0FB3", "U+0FB4",
     "U+0FB5", "U+0FB6", "U+0FB7", "U+0FB8", "U+0FB9", "U+0FBA", "U+0FBB", "U+0FBC", "U+0FC6",
     "U+102D", "U+102E", "U+102F", "U+1030", "U+1032", "U+1033", "U+1034", "U+1035", "U+1036",
     "U+1037", "U+1039", "U+103A", "U+103D", "U+103E", "U+1058", "U+1059", "U+105E", "U+105F",
     "U+1060", "U+1071", "U+1072", "U+1073", "U+1074", "U+1082", "U+1085", "U+1086", "U+108D",
     "U+109D", "U+10FC", "U+135D", "U+135E", "U+135F", "U+1712", "U+1713", "U+1714", "U+1732",
     "U+1733", "U+1752", "U+1753", "U+1772", "U+1773", "U+17B4", "U+17B5", "U+17B7", "U+17B8",
     "U+17B9", "U+17BA", "U+17BB", "U+17BC", "U+17BD", "U+17C6", "U+17C9", "U+17CA", "U+17CB",
     "U+17CC", "U+17CD", "U+17CE", "U+17CF", "U+17D0", "U+17D1", "U+17D2", "U+17D3", "U+17D7",
     "U+17DD", "U+180B", "U+180C", "U+180D", "U+180E", "U+180F", "U+1843", "U+1885", "U+1886",
     "U+18A9", "U+1920", "U+1921", "U+1922", "U+1927", "U+1928", "U+1932", "U+1939", "U+193A",
     "U+193B", "U+1A17", "U+1A18", "U+1A1B", "U+1A56", "U+1A58", "U+1A59", "U+1A5A", "U+1A5B",
     "U+1A5C", "U+1A5D", "U+1A5E", "U+1A60", "U+1A62", "U+1A65", "U+1A66", "U+1A67", "U+1A68",
     "U+1A69", "U+1A6A", "U+1A6B", "U+1A6C", "U+1A73", "U+1A74", "U+1A75", "U+1A76", "U+1A77",
     "U+1A78", "U+1A79", "U+1A7A", "U+1A7B", "U+1A7C", "U+1A7F", "U+1AA7", "U+1AB0", "U+1AB1",
     "U+1AB2", "U+1AB3", "U+1AB4", "U+1AB5", "U+1AB6", "U+1AB7", "U+1AB8", "U+1AB9", "U+1ABA",
     "U+1ABB", "U+1ABC", "U+1ABD", "U+1ABE", "U+1ABF", "U+1AC0", "U+1AC1", "U+1AC2", "U+1AC3",
     "U+1AC4", "U+1AC5", "U+1AC6", "U+1AC7", "U+1AC8", "U+1AC9", "U+1ACA", "U+1ACB", "U+1ACC",
     "U+1ACD", "U+1ACE", "U+1ACF", "U+1AD0", "U+1AD1", "U+1AD2", "U+1AD3", "U+1AD4", "U+1AD5",
     "U+1AD6", "U+1AD7", "U+1AD8", "U+1AD9", "U+1ADA", "U+1ADB", "U+1ADC", "U+1ADD", "U+1AE0",
     "U+1AE1", "U+1AE2", "U+1AE3", "U+1AE4", "U+1AE5", "U+1AE6", "U+1AE7", "U+1AE8", "U+1AE9",
     "U+1AEA", "U+1AEB", "U+1B00", "U+1B01", "U+1B02", "U+1B03", "U+1B34", "U+1B36", "U+1B37",
     "U+1B38", "U+1B39", "U+1B3A", "U+1B3C", "U+1B42", "U+1B6B", "U+1B6C", "U+1B6D", "U+1B6E",
     "U+1B6F", "U+1B70", "U+1B71", "U+1B72", "U+1B73", "U+1B80", "U+1B81", "U+1BA2", "U+1BA3",
     "U+1BA4", "U+1BA5", "U+1BA8", "U+1BA9", "U+1BAB", "U+1BAC", "U+1BAD", "U+1BE6", "U+1BE8",
     "U+1BE9", "U+1BED", "U+1BEF", "U+1BF0", "U+1BF1", "U+1C2C", "U+1C2D", "U+1C2E", "U+1C2F",
     "U+1C30", "U+1C31", "U+1C32", "U+1C33", "U+1C36", "U+1C37", "U+1C78", "U+1C79", "U+1C7A",
     "U+1C7B", "U+1C7C", "U+1C7D", "U+1CD0", "U+1CD1", "U+1CD2", "U+1CD4", "U+1CD5", "U+1CD6",
     "U+1CD7", "U+1CD8", "U+1CD9", "U+1CDA", "U+1CDB", "U+1CDC", "U+1CDD", "U+1CDE", "U+1CDF",
     "U+1CE0", "U+1CE2", "U+1CE3", "U+1CE4", "U+1CE5", "U+1CE6", "U+1CE7", "U+1CE8", "U+1CED",
     "U+1CF4", "U+1CF8", "U+1CF9", "U+1D2C", "U+1D2D", "U+1D2E", "U+1D2F", "U+1D30", "U+1D31",
     "U+1D32", "U+1D33", "U+1D34", "U+1D35", "U+1D36", "U+1D37", "U+1D38", "U+1D39", "U+1D3A",
     "U+1D3B", "U+1D3C", "U+1D3D", "U+1D3E", "U+1D3F", "U+1D40", "U+1D41", "U+1D42", "U+1D43",
     "U+1D44", "U+1D45", "U+1D46", "U+1D47", "U+1D48", "U+1D49", "U+1D4A", "U+1D4B", "U+1D4C",
     "U+1D4D", "U+1D4E", "U+1D4F", "U+1D50", "U+1D51", "U+1D52", "U+1D53", "U+1D54", "U+1D55",
     "U+1D56", "U+1D57", "U+1D58", "U+1D59", "U+1D5A", "U+1D5B", "U+1D5C", "U+1D5D", "U+1D5E",
     "U+1D5F", "U+1D60", "U+1D61", "U+1D62", "U+1D63", "U+1D64", "U+1D65", "U+1D66", "U+1D67",
     "U+1D68", "U+1D69", "U+1D6A", "U+1D78", "U+1D9B", "U+1D9C", "U+1D9D", "U+1D9E", "U+1D9F",
     "U+1DA0", "U+1DA1", "U+1DA2", "U+1DA3", "U+1DA4", "U+1DA5", "U+1DA6", "U+1DA7", "U+1DA8",
     "U+1DA9", "U+1DAA", "U+1DAB", "U+1DAC", "U+1DAD", "U+1DAE", "U+1DAF", "U+1DB0", "U+1DB1",
     "U+1DB2", "U+1DB3", "U+1DB4", "U+1DB5", "U+1DB6", "U+1DB7", "U+1DB8", "U+1DB9", "U+1DBA",
     "U+1DBB", "U+1DBC", "U+1DBD", "U+1DBE", "U+1DBF", "U+1DC0", "U+1DC1", "U+1DC2", "U+1DC3",
     "U+1DC4", "U+1DC5", "U+1DC6", "U+1DC7", "U+1DC8", "U+1DC9", "U+1DCA", "U+1DCB", "U+1DCC",
     "U+1DCD", "U+1DCE", "U+1DCF", "U+1DD0", "U+1DD1", "U+1DD2", "U+1DD3", "U+1DD4", "U+1DD5",
     "U+1DD6", "U+1DD7", "U+1DD8", "U+1DD9", "U+1DDA", "U+1DDB", "U+1DDC", "U+1DDD", "U+1DDE",
     "U+1DDF", "U+1DE0", "U+1DE1", "U+1DE2", "U+1DE3", "U+1DE4", "U+1DE5", "U+1DE6", "U+1DE7",
     "U+1DE8", "U+1DE9", "U+1DEA", "U+1DEB", "U+1DEC", "U+1DED", "U+1DEE", "U+1DEF", "U+1DF0",
     "U+1DF1", "U+1DF2", "U+1DF3", "U+1DF4", "U+1DF5", "U+1DF6", "U+1DF7", "U+1DF8", "U+1DF9",
     "U+1DFA", "U+1DFB", "U+1DFC", "U+1DFD", "U+1DFE", "U+1DFF", "U+1FBD", "U+1FBF", "U+1FC0",
     "U+1FC1", "U+1FCD", "U+1FCE", "U+1FCF", "U+1FDD", "U+1FDE", "U+1FDF", "U+1FED", "U+1FEE",
     "U+1FEF", "U+1FFD", "U+1FFE", "U+200B", "U+200C", "U+200D", "U+200E", "U+200F", "U+2018",
     "U+2019", "U+2024", "U+2027", "U+202A", "U+202B", "U+202C", "U+202D", "U+202E", "U+2060",
     "U+2061", "U+2062", "U+2063", "U+2064", "U+2066", "U+2067", "U+2068", "U+2069", "U+206A",
     "U+206B", "U+206C", "U+206D", "U+206E", "U+206F", "U+2071", "U+207F", "U+2090", "U+2091",
     "U+2092", "U+2093", "U+2094", "U+2095", "U+2096", "U+2097", "U+2098", "U+2099", "U+209A",
     "U+209B", "U+209C", "U+20D0", "U+20D1", "U+20D2", "U+20D3", "U+20D4", "U+20D5", "U+20D6",
     "U+20D7", "U+20D8", "U+20D9", "U+20DA", "U+20DB", "U+20DC", "U+20DD", "U+20DE", "U+20DF",
     "U+20E0", "U+20E1", "U+20E2", "U+20E3", "U+20E4", "U+20E5", "U+20E6", "U+20E7", "U+20E8",
     "U+20E9", "U+20EA", "U+20EB", "U+20EC", "U+20ED", "U+20EE", "U+20EF", "U+20F0", "U+2C7C",
     "U+2C7D", "U+2CEF", "U+2CF0", "U+2CF1", "U+2D6F", "U+2D7F", "U+2DE0", "U+2DE1", "U+2DE2",
     "U+2DE3", "U+2DE4", "U+2DE5", "U+2DE6", "U+2DE7", "U+2DE8", "U+2DE9", "U+2DEA", "U+2DEB",
     "U+2DEC", "U+2DED", "U+2DEE", "U+2DEF", "U+2DF0", "U+2DF1", "U+2DF2", "U+2DF3", "U+2DF4",
     "U+2DF5", "U+2DF6", "U+2DF7", "U+2DF8", "U+2DF9", "U+2DFA", "U+2DFB", "U+2DFC", "U+2DFD",
     "U+2DFE", "U+2DFF", "U+2E2F", "U+3005", "U+302A", "U+302B", "U+302C", "U+302D", "U+3031",
     "U+3032", "U+3033", "U+3034", "U+3035", "U+303B", "U+3099", "U+309A", "U+309B", "U+309C",
     "U+309D", "U+309E", "U+30FC", "U+30FD", "U+30FE", "U+A015", "U+A4F8", "U+A4F9", "U+A4FA",
     "U+A4FB", "U+A4FC", "U+A4FD", "U+A60C", "U+A66F", "U+A670", "U+A671", "U+A672", "U+A674",
     "U+A675", "U+A676", "U+A677", "U+A678", "U+A679", "U+A67A", "U+A67B", "U+A67C", "U+A67D",
     "U+A67F", "U+A69C", "U+A69D", "U+A69E", "U+A69F", "U+A6F0", "U+A6F1", "U+A700", "U+A701",
     "U+A702", "U+A703", "U+A704", "U+A705", "U+A706", "U+A707", "U+A708", "U+A709", "U+A70A",
     "U+A70B", "U+A70C", "U+A70D", "U+A70E", "U+A70F", "U+A710", "U+A711", "U+A712", "U+A713",
     "U+A714", "U+A715", "U+A716", "U+A717", "U+A718", "U+A719", "U+A71A", "U+A71B", "U+A71C",
     "U+A71D", "U+A71E", "U+A71F", "U+A720", "U+A721", "U+A770", "U+A788", "U+A789", "U+A78A",
     "U+A7F1", "U+A7F2", "U+A7F3", "U+A7F4", "U+A7F8", "U+A7F9", "U+A802", "U+A806", "U+A80B",
     "U+A825", "U+A826", "U+A82C", "U+A8C4", "U+A8C5", "U+A8E0", "U+A8E1", "U+A8E2", "U+A8E3",
     "U+A8E4", "U+A8E5", "U+A8E6", "U+A8E7", "U+A8E8", "U+A8E9", "U+A8EA", "U+A8EB", "U+A8EC",
     "U+A8ED", "U+A8EE", "U+A8EF", "U+A8F0", "U+A8F1", "U+A8FF", "U+A926", "U+A927", "U+A928",
     "U+A929", "U+A92A", "U+A92B", "U+A92C", "U+A92D", "U+A947", "U+A948", "U+A949", "U+A94A",
     "U+A94B", "U+A94C", "U+A94D", "U+A94E", "U+A94F", "U+A950", "U+A951", "U+A980", "U+A981",
     "U+A982", "U+A9B3", "U+A9B6", "U+A9B7", "U+A9B8", "U+A9B9", "U+A9BC", "U+A9BD", "U+A9CF",
     "U+A9E5", "U+A9E6", "U+AA29", "U+AA2A", "U+AA2B", "U+AA2C", "U+AA2D", "U+AA2E", "U+AA31",
     "U+AA32", "U+AA35", "U+AA36", "U+AA43", "U+AA4C", "U+AA70", "U+AA7C", "U+AAB0", "U+AAB2",
     "U+AAB3", "U+AAB4", "U+AAB7", "U+AAB8", "U+AABE", "U+AABF", "U+AAC1", "U+AADD", "U+AAEC",
     "U+AAED", "U+AAF3", "U+AAF4", "U+AAF6", "U+AB5B", "U+AB5C", "U+AB5D", "U+AB5E", "U+AB5F",
     "U+AB69", "U+AB6A", "U+AB6B", "U+ABE5", "U+ABE8", "U+ABED", "U+FB1E", "U+FBB2", "U+FBB3",
     "U+FBB4", "U+FBB5", "U+FBB6", "U+FBB7", "U+FBB8", "U+FBB9", "U+FBBA", "U+FBBB", "U+FBBC",
     "U+FBBD", "U+FBBE", "U+FBBF", "U+FBC0", "U+FBC1", "U+FBC2", "U+FE00", "U+FE01", "U+FE02",
     "U+FE03", "U+FE04", "U+FE05", "U+FE06", "U+FE07", "U+FE08", "U+FE09", "U+FE0A", "U+FE0B",
     "U+FE0C", "U+FE0D", "U+FE0E", "U+FE0F", "U+FE13", "U+FE20", "U+FE21", "U+FE22", "U+FE23",
     "U+FE24", "U+FE25", "U+FE26", "U+FE27", "U+FE28", "U+FE29", "U+FE2A", "U+FE2B", "U+FE2C",
     "U+FE2D", "U+FE2E", "U+FE2F", "U+FE52", "U+FE55", "U+FEFF", "U+FF07", "U+FF0E", "U+FF1A",
     "U+FF3E", "U+FF40", "U+FF70", "U+FF9E", "U+FF9F", "U+FFE3", "U+FFF9", "U+FFFA", "U+FFFB"}

\* the code units with the property Cased that are not Case_Ignorable
Cased ==
    {"A", "B", "C", "D", "E", "F", "G", "H", "I", "J", "K", "L", "M", "N", "O", "P", "Q", "R",
     "S", "T", "U", "V", "W", "X", "Y", "Z", "a", "b", "c", "d", "e", "f", "g", "h", "i", "j",
     "k", "l", "m", "n", "o", "p", "q", "r", "s", "t", "u", "v", "w", "x", "y", "z", "U+00AA",
     "U+00B5", "U+00BA", "U+00C0", "U+00C1", "U+00C2", "U+00C3", "U+00C4", "U+00C5", "U+00C6",
     "U+00C7", "U+00C8", "U+00C9", "U+00CA", "U+00CB", "U+00CC", "U+00CD", "U+00CE", "U+00CF",
     "U+00D0", "U+00D1", "U+00D2", "U+00D3", "U+00D4", "U+00D5", "U+00D6", "U+00D8", "U+00D9",
     "U+00DA", "U+00DB", "U+00DC", "U+00DD", "U+00DE", "U+00DF", "U+00E0", "U+00E1", "U+00E2",
     "U+00E3", "U+00E4", "U+00E5", "U+00E6", "U+00E7", "U+00E8", "U+00E9", "U+00EA", "U+00EB",
     "U+00EC", "U+00ED", "U+00EE", "U+00EF", "U+00F0", "U+00F1", "U+00F2", "U+00F3", "U+00F4",
     "U+00F5", "U+00F6", "U+00F8", "U+00F9", "U+00FA", "U+00FB", "U+00FC", "U+00FD", "U+00FE",
     "U+00FF", "U+0100", "U+0101", "U+0102", "U+0103", "U+0104", "U+0105", "U+0106", "U+0107",
     "U+0108", "U+0109", "U+010A", "U+010B", "U+010C", "U+010D", "U+010E", "U+010F", "U+0110",
     "U+0111", "U+0112", "U+0113", "U+0114", "U+0115", "U+0116", "U+0117", "U+0118", "U+0119",
     "U+011A", "U+011B", "U+011C", "U+011D", "U+011E", "U+011F", "U+0120", "U+0121", "U+0122",
     "U+0123", "U+0124", "U+0125", "U+0126", "U+0127", "U+0128", "U+0129", "U+012A", "U+012B",
     "U+012C", "U+012D", "U+012E", "U+012F", "U+0130", "U+0131", "U+0132", "U+0133", "U+0134",
     "U+0135", "U+0136", "U+0137", "U+0138", "U+0139", "U+013A", "U+013B", "U+013C", "U+013D",
     "U+013E", "U+013F", "U+0140", "U+0141", "U+0142", "U+0143", "U+0144", "U+0145", "U+0146",
     "U+0147", "U+0148", "U+0149", "U+014A", "U+014B", "U+014C", "U+014D", "U+014E", "U+014F",
     "U+0150", "U+0151", "U+0152", "U+0153", "U+0154", "U+0155", "U+0156", "U+0157", "U+0158",
     "U+0159", "U+015A", "U+015B", "U+015C", "U+015D", "U+015E", "U+015F", "U+0160", "U+0161",
     "U+0162", "U+0163", "U+0164", "U+0165", "U+0166", "U+0167", "U+0168", "U+0169", "U+016A",
     "U+016B", "U+016C", "U+016D", "U+016E", "U+016F", "U+0170", "U+0171", "U+0172", "U+0173",
     "U+0174", "U+0175", "U+0176", "U+0177", "U+0178", "U+0179", "U+017A", "U+017B", "U+017C",
     "U+017D", "U+017E", "U+017F", "U+0180", "U+0181", "U+0182", "U+0183", "U+0184", "U+0185",
     "U+0186", "U+0187", "U+0188", "U+0189", "U+018A", "U+018B", "U+018C", "U+018D", "U+018E",
     "U+018F", "U+0190", "U+0191", "U+0192", "U+0193", "U+0194", "U+0195", "U+0196", "U+0197",
     "U+0198", "U+0199", "U+019A", "U+019B", "U+019C", "U+019D", "U+019E", "U+019F", "U+01A0",
     "U+01A1", "U+01A2", "U+01A3", "U+01A4", "U+01A5", "U+01A6", "U+01A7", "U+01A8", "U+01A9",
     "U+01AA", "U+01AB", "U+01AC", "U+01AD", "U+01AE", "U+01AF", "U+01B0", "U+01B1", "U+01B2",
     "U+01B3", "U+01B4", "U+01B5", "U+01B6", "U+01B7", "U+01B8", "U+01B9", "U+01BA", "U+01BC",
     "U+01BD", "U+01BE", "U+01BF", "U+01C4", "U+01C5", "U+01C6", "U+01C7", "U+01C8", "U+01C9",
     "U+01CA", "U+01CB", "U+01CC", "U+01CD", "U+01CE", "U+01CF", "U+01D0", "U+01D1", "U+01D2",
     "U+01D3", "U+01D4", "U+01D5", "U+01D6", "U+01D7", "U+01D8", "U+01D9", "U+01DA", "U+01DB",
     "U+01DC", "U+01DD", "U+01DE", "U+01DF", "U+01E0", "U+01E1", "U+01E2", "U+01E3", "U+01E4",
     "U+01E5", "U+01E6", "U+01E7", "U+01E8", "U+01E9", "U+01EA", "U+01EB", "U+01EC", "U+01ED",
     "U+01EE", "U+01EF", "U+01F0", "U+01F1", "U+01F2", "U+01F3", "U+01F4", "U+01F5", "U+01F6",
     "U+01F7", "U+01F8", "U+01F9", "U+01FA", "U+01FB", "U+01FC", "U+01FD", "U+01FE", "U+01FF",
     "U+0200", "U+0201", "U+0202", "U+0203", "U+0204", "U+0205", "U+0206", "U+0207", "U+0208",
     "U+0209", "U+020A", "U+020B", "U+020C", "U+020D", "U+020E", "U+020F", "U+0210", "U+0211",
     "U+0212", "U+0213", "U+0214", "U+0215", "U+0216", "U+0217", "U+0218", "U+0219", "U+021A",
     "U+021B", "U+021C", "U+021D", "U+021E", "U+021F", "U+0220", "U+0221", "U+0222", "U+0223",
     "U+0224", "U+0225", "U+0226", "U+0227", "U+0228", "U+0229", "U+022A", "U+022B", "U+022C",
     "U+022D", "U+022E", "U+022F", "U+0230", "U+0231", "U+0232", "U+0233", "U+0234", "U+0235",
     "U+0236", "U+0237", "U+0238", "U+0239", "U+023A", "U+023B", "U+023C", "U+023D", "U+023E",
     "U+023F", "U+0240", "U+0241", "U+0242", "U+0243", "U+0244", "U+0245", "U+0246", "U+0247",
     "U+0248", "U+0249", "U+024A", "U+024B", "U+024C", "U+024D", "U+024E", "U+024F", "U+0250",
     "U+0251", "U+0252", "U+0253", "U+0254", "U+0255", "U+0256", "U+0257", "U+0258", "U+0259",
     "U+025A", "U+025B", "U+025C", "U+025D", "U+025E", "U+025F", "U+0260", "U+0261", "U+0262",
     "U+0263", "U+0264", "U+0265", "U+0266", "U+0267", "U+0268", "U+0269", "U+026A", "U+026B",
     "U+026C", "U+026D", "U+026E", "U+026F", "U+0270", "U+0271", "U+0272", "U+0273", "U+0274",
     "U+0275", "U+0276", "U+0277", "U+0278", "U+0279", "U+027A", "U+027B", "U+027C", "U+027D",
     "U+027E", "U+027F", "U+0280", "U+0281", "U+0282", "U+0283", "U+0284", "U+0285", "U+0286",
     "U+0287", "U+0288", "U+0289", "U+028A", "U+028B", "U+028C", "U+028D", "U+028E", "U+028F",
     "U+0290", "U+0291", "U+0292", "U+0293", "U+0296", "U+0297", "U+0298", "U+0299", "U+029A",
     "U+029B", "U+029C", "U+029D", "U+029E", "U+029F", "U+02A0", "U+02A1", "U+02A2", "U+02A3",
     "U+02A4", "U+02A5", "U+02A6", "U+02A7", "U+02A8", "U+02A9", "U+02AA", "U+02AB", "U+02AC",
     "U+02AD", "U+02AE", "U+02AF", "U+0370", "U+0371", "U+0372", "U+0373", "U+0376", "U+0377",
     "U+037B", "U+037C", "U+037D", "U+037F", "U+0386", "U+0388", "U+0389", "U+038A", "U+038C",
     "U+038E", "U+038F", "U+0390", "U+0391", "U+0392", "U+0393", "U+0394", "U+0395", "U+0396",
     "U+0397", "U+0398", "U+0399", "U+039A", "U+039B", "U+039C", "U+039D", "U+039E", "U+039F",
     "U+03A0", "U+03A1", "U+03A3", "U+03A4", "U+03A5", "U+03A6", "U+03A7", "U+03A8", "U+03A9",
     "U+03AA", "U+03AB", "U+03AC", "U+03AD", "U+03AE", "U+03AF", "U+03B0", "U+03B1", "U+03B2",
     "U+03B3", "U+03B4", "U+03B5", "U+03B6", "U+03B7", "U+03B8", "U+03B9", "U+03BA", "U+03BB",
     "U+03BC", "U+03BD", "U+03BE", "U+03BF", "U+03C0", "U+03C1", "U+03C2", "U+03C3", "U+03C4",
     "U+03C5", "U+03C6", "U+03C7", "U+03C8", "U+03C9", "U+03CA", "U+03CB", "U+03CC", "U+03CD",
     "U+03CE", "U+03CF", "U+03D0", "U+03D1", "U+03D2", "U+03D3", "U+03D4", "U+03D5", "U+03D6",
     "U+03D7", "U+03D8", "U+03D9", "U+03DA", "U+03DB", "U+03DC", "U+03DD", "U+03DE", "U+03DF",
     "U+03E0", "U+03E1", "U+03E2", "U+03E3", "U+03E4", "U+03E5", "U+03E6", "U+03E7", "U+03E8",
     "U+03E9", "U+03EA", "U+03EB", "U+03EC", "U+03ED", "U+03EE", "U+03EF", "U+03F0", "U+03F1",
     "U+03F2", "U+03F3", "U+03F4", "U+03F5", "U+03F7", "U+03F8", "U+03F9", "U+03FA", "U+03FB",
     "U+03FC", "U+03FD", "U+03FE", "U+03FF", "U+0400", "U+0401", "U+0402", "U+0403", "U+0404",
     "U+0405", "U+0406", "U+0407", "U+0408", "U+0409", "U+040A", "U+040B", "U+040C", "U+040D",
     "U+040E", "U+040F", "U+0410", "U+0411", "U+0412", "U+0413", "U+0414", "U+0415", "U+0416",
     "U+0417", "U+0418", "U+0419", "U+041A", "U+041B", "U+041C", "U+041D", "U+041E", "U+041F",
     "U+0420", "U+0421", "U+0422", "U+0423", "U+0424", "U+0425", "U+0426", "U+0427", "U+0428",
     "U+0429", "U+042A", "U+042B", "U+042C", "U+042D", "U+042E", "U+042F", "U+0430", "U+0431",
     "U+0432", "U+0433", "U+0434", "U+0435", "U+0436", "U+0437", "U+0438", "U+0439", "U+043A",
     "U+043B", "U+043C", "U+043D", "U+043E", "U+043F", "U+0440", "U+0441", "U+0442", "U+0443",
     "U+0444", "U+0445", "U+0446", "U+0447", "U+0448", "U+0449", "U+044A", "U+044B", "U+044C",
     "U+044D", "U+044E", "U+044F", "U+0450", "U+0451", "U+0452", "U+0453", "U+0454", "U+0455",
     "U+0456", "U+0457", "U+0458", "U+0459", "U+045A", "U+045B", "U+045C", "U+045D", "U+045E",
     "U+045F", "U+0460", "U+0461", "U+0462", "U+0463", "U+0464", "U+0465", "U+0466", "U+0467",
     "U+0468", "U+0469", "U+046A", "U+046B", "U+046C", "U+046D", "U+046E", "U+046F", "U+0470",
     "U+0471", "U+0472", "U+0473", "U+0474", "U+0475", "U+0476", "U+0477", "U+0478", "U+0479",
     "U+047A", "U+047B", "U+047C", "U+047D", "U+047E", "U+047F", "U+0480", "U+0481", "U+048A",
     "U+048B", "U+048C", "U+048D", "U+048E", "U+048F", "U+0490", "U+0491", "U+0492", "U+0493",
     "U+0494", "U+0495", "U+0496", "U+0497", "U+0498", "U+0499", "U+049A", "U+049B", "U+049C",
     "U+049D", "U+049E", "U+049F", "U+04A0", "U+04A1", "U+04A2", "U+04A3", "U+04A4", "U+04A5",
     "U+04A6", "U+04A7", "U+04A8", "U+04A9", "U+04AA", "U+04AB", "U+04AC", "U+04AD", "U+04AE",
     "U+04AF", "U+04B0", "U+04B1", "U+04B2", "U+04B3", "U+04B4", "U+04B5", "U+04B6", "U+04B7",
     "U+04B8", "U+04B9", "U+04BA", "U+04BB", "U+04BC", "U+04BD", "U+04BE", "U+04BF", "U+04C0",
     "U+04C1", "U+04C2", "U+04C3", "U+04C4", "U+04C5", "U+04C6", "U+04C7", "U+04C8", "U+04C9",
     "U+04CA", "U+04CB", "U+04CC", "U+04CD", "U+04CE", "U+04CF", "U+04D0", "U+04D1", "U+04D2",
     "U+04D3", "U+04D4", "U+04D5", "U+04D6", "U+04D7", "U+04D8", "U+04D9", "U+04DA", "U+04DB",
     "U+04DC", "U+04DD", "U+04DE", "U+04DF", "U+04E0", "U+04E1", "U+04E2", "U+04E3", "U+04E4",
     "U+04E5", "U+04E6", "U+04E7", "U+04E8", "U+04E9", "U+04EA", "U+04EB", "U+04EC", "U+04ED",
     "U+04EE", "U+04EF", "U+04F0", "U+04F1", "U+04F2", "U+04F3", "U+04F4", "U+04F5", "U+04F6",
     "U+04F7", "U+04F8", "U+04F9", "U+04FA", "U+04FB", "U+04FC", "U+04FD", "U+04FE", "U+04FF",
     "U+0500", "U+0501", "U+0502", "U+0503", "U+0504", "U+0505", "U+0506", "U+0507", "U+0508",
     "U+0509", "U+050A", "U+050B", "U+050C", "U+050D", "U+050E", "U+050F", "U+0510", "U+0511",
     "U+0512", "U+0513", "U+0514", "U+0515", "U+0516", "U+0517", "U+0518", "U+0519", "U+051A",
     "U+051B", "U+051C", "U+051D", "U+051E", "U+051F", "U+0520", "U+0521", "U+0522", "U+0523",
     "U+0524", "U+0525", "U+0526", "U+0527", "U+0528", "U+0529", "U+052A", "U+052B", "U+052C",
     "U+052D", "U+052E", "U+052F", "U+0531", "U+0532", "U+0533", "U+0534", "U+0535", "U+0536",
     "U+0537", "U+0538", "U+0539", "U+053A", "U+053B", "U+053C", "U+053D", "U+053E", "U+053F",
     "U+0540", "U+0541", "U+0542", "U+0543", "U+0544", "U+0545", "U+0546", "U+0547", "U+0548",
     "U+0549", "U+054A", "U+054B", "U+054C", "U+054D", "U+054E", "U+054F", "U+0550", "U+0551",
     "U+0552", "U+0553", "U+0554", "U+0555", "U+0556", "U+0560", "U+0561", "U+0562", "U+0563",
     "U+0564", "U+0565", "U+0566", "U+0567", "U+0568", "U+0569", "U+056A", "U+056B", "U+056C",
     "U+056D", "U+056E", "U+056F", "U+0570", "U+0571", "U+0572", "U+0573", "U+0574", "U+0575",
     "U+0576", "U+0577", "U+0578", "U+0579", "U+057A", "U+057B", "U+057C", "U+057D", "U+057E",
     "U+057F", "U+0580", "U+0581", "U+0582", "U+0583", "U+0584", "U+0585", "U+0586", "U+0587",
     "U+0588", "U+10A0", "U+10A1", "U+10A2", "U+10A3", "U+10A4", "U+10A5", "U+10A6", "U+10A7",
     "U+10A8", "U+10A9", "U+10AA", "U+10AB", "U+10AC", "U+10AD", "U+10AE", "U+10AF", "U+10B0",
     "U+10B1", "U+10B2", "U+10B3", "U+10B4", "U+10B5", "U+10B6", "U+10B7", "U+10B8", "U+10B9",
     "U+10BA", "U+10BB", "U+10BC", "U+10BD", "U+10BE", "U+10BF", "U+10C0", "U+10C1", "U+10C2",
     "U+10C3", "U+10C4", "U+10C5", "U+10C7", "U+10CD", "U+10D0", "U+10D1", "U+10D2", "U+10D3",
     "U+10D4", "U+10D5", "U+10D6", "U+10D7", "U+10D8", "U+10D9", "U+10DA", "U+10DB", "U+10DC",
     "U+10DD", "U+10DE", "U+10DF", "U+10E0", "U+10E1", "U+10E2", "U+10E3", "U+10E4", "U+10E5",
     "U+10E6", "U+10E7", "U+10E8", "U+10E9", "U+10EA", "U+10EB", "U+10EC", "U+10ED", "U+10EE",
     "U+10EF", "U+10F0", "U+10F1", "U+10F2", "U+10F3", "U+10F4", "U+10F5", "U+10F6", "U+10F7",
     "U+10F8", "U+10F9", "U+10FA", "U+10FD", "U+10FE", "U+10FF", "U+13A0", "U+13A1", "U+13A2",
     "U+13A3", "U+13A4", "U+13A5", "U+13A6", "U+13A7", "U+13A8", "U+13A9", "U+13AA", "U+13AB",
     "U+13AC", "U+13AD", "U+13AE", "U+13AF", "U+13B0", "U+13B1", "U+13B2", "U+13B3", "U+13B4",
     "U+13B5", "U+13B6", "U+13B7", "U+13B8", "U+13B9", "U+13BA", "U+13BB", "U+13BC", "U+13BD",
     "U+13BE", "U+13BF", "U+13C0", "U+13C1", "U+13C2", "U+13C3", "U+13C4", "U+13C5", "U+13C6",
     "U+13C7", "U+13C8", "U+13C9", "U+13CA", "U+13CB", "U+13CC", "U+13CD", "U+13CE", "U+13CF",
     "U+13D0", "U+13D1", "U+13D2", "U+13D3", "U+13D4", "U+13D5", "U+13D6", "U+13D7", "U+13D8",
     "U+13D9", "U+13DA", "U+13DB", "U+13DC", "U+13DD", "U+13DE", "U+13DF", "U+13E0", "U+13E1",
     "U+13E2", "U+13E3", "U+13E4", "U+13E5", "U+13E6", "U+13E7", "U+13E8", "U+13E9", "U+13EA",
     "U+13EB", "U+13EC", "U+13ED", "U+13EE", "U+13EF", "U+13F0", "U+13F1", "U+13F2", "U+13F3",
     "U+13F4", "U+13F5", "U+13F8", "U+13F9", "U+13FA", "U+13FB", "U+13FC", "U+13FD", "U+1C80",
     "U+1C81", "U+1C82", "U+1C83", "U+1C84", "U+1C85", "U+1C86", "U+1C87", "U+1C88", "U+1C89",
     "U+1C8A", "U+1C90", "U+1C91", "U+1C92", "U+1C93", "U+1C94", "U+1C95", "U+1C96", "U+1C97",
     "U+1C98", "U+1C99", "U+1C9A", "U+1C9B", "U+1C9C", "U+1C9D", "U+1C9E", "U+1C9F", "U+1CA0",
     "U+1CA1", "U+1CA2", "U+1CA3", "U+1CA4", "U+1CA5", "U+1CA6", "U+1CA7", "U+1CA8", "U+1CA9",
     "U+1CAA", "U+1CAB", "U+1CAC", "U+1CAD", "U+1CAE", "U+1CAF", "U+1CB0", "U+1CB1", "U+1CB2",
     "U+1CB3", "U+1CB4", "U+1CB5", "U+1CB6", "U+1CB7", "U+1CB8", "U+1CB9", "U+1CBA", "U+1CBD",
     "U+1CBE", "U+1CBF", "U+1D00", "U+1D01", "U+1D02", "U+1D03", "U+1D04", "U+1D05", "U+1D06",
     "U+1D07", "U+1D08", "U+1D09", "U+1D0A", "U+1D0B", "U+1D0C", "U+1D0D", "U+1D0E", "U+1D0F",
     "U+1D10", "U+1D11", "U+1D12", "U+1D13", "U+1D14", "U+1D15", "U+1D16", "U+1D17", "U+1D18",
     "U+1D19", "U+1D1A", "U+1D1B", "U+1D1C", "U+1D1D", "U+1D1E", "U+1D1F", "U+1D20", "U+1D21",
     "U+1D22", "U+1D23", "U+1D24", "U+1D25", "U+1D26", "U+1D27", "U+1D28", "U+1D29", "U+1D2A",
     "U+1D2B", "U+1D6B", "U+1D6C", "U+1D6D", "U+1D6E", "U+1D6F", "U+1D70", "U+1D71", "U+1D72",
     "U+1D73", "U+1D74", "U+1D75", "U+1D76", "U+1D77", "U+1D79", "U+1D7A", "U+1D7B", "U+1D7C",
     "U+1D7D", "U+1D7E", "U+1D7F", "U+1D80", "U+1D81", "U+1D82", "U+1D83", "U+1D84", "U+1D85",
     "U+1D86", "U+1D87", "U+1D88", "U+1D89", "U+1D8A", "U+1D8B", "U+1D8C", "U+1D8D", "U+1D8E",
     "U+1D8F", "U+1D90", "U+1D91", "U+1D92", "U+1D93", "U+1D94", "U+1D95", "U+1D96", "U+1D97",
     "U+1D98", "U+1D99", "U+1D9A", "U+1E00", "U+1E01", "U+1E02", "U+1E03", "U+1E04", "U+1E05",
     "U+1E06", "U+1E07", "U+1E08", "U+1E09", "U+1E0A", "U+1E0B", "U+1E0C", "U+1E0D", "U+1E0E",
     "U+1E0F", "U+1E10", "U+1E11", "U+1E12", "U+1E13", "U+1E14", "U+1E15", "U+1E16", "U+1E17",
     "U+1E18", "U+1E19", "U+1E1A", "U+1E1B", "U+1E1C", "U+1E1D", "U+1E1E", "U+1E1F", "U+1E20",
     "U+1E21", "U+1E22", "U+1E23", "U+1E24", "U+1E25", "U+1E26", "U+1E27", "U+1E28", "U+1E29",
     "U+1E2A", "U+1E2B", "U+1E2C", "U+1E2D", "U+1E2E", "U+1E2F", "U+1E30", "U+1E31", "U+1E32",
     "U+1E33", "U+1E34", "U+1E35", "U+1E36", "U+1E37", "U+1E38", "U+1E39", "U+1E3A", "U+1E3B",
     "U+1E3C", "U+1E3D", "U+1E3E", "U+1E3F", "U+1E40", "U+1E41", "U+1E42", "U+1E43", "U+1E44",
     "U+1E45", "U+1E46", "U+1E47", "U+1E48", "U+1E49", "U+1E4A", "U+1E4B", "U+1E4C", "U+1E4D",
     "U+1E4E", "U+1E4F", "U+1E50", "U+1E51", "U+1E52", "U+1E53", "U+1E54", "U+1E55", "U+1E56",
     "U+1E57", "U+1E58", "U+1E59", "U+1E5A", "U+1E5B", "U+1E5C", "U+1E5D", "U+1E5E", "U+1E5F",
     "U+1E60", "U+1E61", "U+1E62", "U+1E63", "U+1E64", "U+1E65", "U+1E66", "U+1E67", "U+1E68",
     "U+1E69", "U+1E6A", "U+1E6B", "U+1E6C", "U+1E6D", "U+1E6E", "U+1E6F", "U+1E70", "U+1E71",
     "U+1E72", "U+1E73", "U+1E74", "U+1E75", "U+1E76", "U+1E77", "U+1E78", "U+1E79", "U+1E7A",
     "U+1E7B", "U+1E7C", "U+1E7D", "U+1E7E", "U+1E7F", "U+1E80", "U+1E81", "U+1E82", "U+1E83",
     "U+1E84", "U+1E85", "U+1E86", "U+1E87", "U+1E88", "U+1E89", "U+1E8A", "U+1E8B", "U+1E8C",
     "U+1E8D", "U+1E8E", "U+1E8F", "U+1E90", "U+1E91", "U+1E92", "U+1E93", "U+1E94", "U+1E95",
     "U+1E96", "U+1E97", "U+1E98", "U+1E99", "U+1E9A", "U+1E9B", "U+1E9C", "U+1E9D", "U+1E9E",
     "U+1E9F", "U+1EA0", "U+1EA1", "U+1EA2", "U+1EA3", "U+1EA4", "U+1EA5", "U+1EA6", "U+1EA7",
     "U+1EA8", "U+1EA9", "U+1EAA", "U+1EAB", "U+1EAC", "U+1EAD", "U+1EAE", "U+1EAF", "U+1EB0",
     "U+1EB1", "U+1EB2", "U+1EB3", "U+1EB4", "U+1EB5", "U+1EB6", "U+1EB7", "U+1EB8", "U+1EB9",
     "U+1EBA", "U+1EBB", "U+1EBC", "U+1EBD", "U+1EBE", "U+1EBF", "U+1EC0", "U+1EC1", "U+1EC2",
     "U+1EC3", "U+1EC4", "U+1EC5", "U+1EC6", "U+1EC7", "U+1EC8", "U+1EC9", "U+1ECA", "U+1ECB",
     "U+1ECC", "U+1ECD", "U+1ECE", "U+1ECF", "U+1ED0", "U+1ED1", "U+1ED2", "U+1ED3", "U+1ED4",
     "U+1ED5", "U+1ED6", "U+1ED7", "U+1ED8", "U+1ED9", "U+1EDA", "U+1EDB", "U+1EDC", "U+1EDD",
     "U+1EDE", "U+1EDF", "U+1EE0", "U+1EE1", "U+1EE2", "U+1EE3", "U+1EE4", "U+1EE5", "U+1EE6",
     "U+1EE7", "U+1EE8", "U+1EE9", "U+1EEA", "U+1EEB", "U+1EEC", "U+1EED", "U+1EEE", "U+1EEF",
     "U+1EF0", "U+1EF1", "U+1EF2", "U+1EF3", "U+1EF4", "U+1EF5", "U+1EF6", "U+1EF7", "U+1EF8",
     "U+1EF9", "U+1EFA", "U+1EFB", "U+1EFC", "U+1EFD", "U+1EFE", "U+1EFF", "U+1F00", "U+1F01",
     "U+1F02", "U+1F03", "U+1F04", "U+1F05", "U+1F06", "U+1F07", "U+1F08", "U+1F09", "U+1F0A",
     "U+1F0B", "U+1F0C", "U+1F0D", "U+1F0E", "U+1F0F", "U+1F10", "U+1F11", "U+1F12", "U+1F13",
     "U+1F14", "U+1F15", "U+1F18", "U+1F19", "U+1F1A", "U+1F1B", "U+1F1C", "U+1F1D", "U+1F20",
     "U+1F21", "U+1F22", "U+1F23", "U+1F24", "U+1F25", "U+1F26", "U+1F27", "U+1F28", "U+1F29",
     "U+1F2A", "U+1F2B", "U+1F2C", "U+1F2D", "U+1F2E", "U+1F2F", "U+1F30", "U+1F31", "U+1F32",
     "U+1F33", "U+1F34", "U+1F35", "U+1F36", "U+1F37", "U+1F38", "U+1F39", "U+1F3A", "U+1F3B",
     "U+1F3C", "U+1F3D", "U+1F3E", "U+1F3F", "U+1F40", "U+1F41", "U+1F42", "U+1F43", "U+1F44",
     "U+1F45", "U+1F48", "U+1F49", "U+1F4A", "U+1F4B", "U+1F4C", "U+1F4D", "U+1F50", "U+1F51",
     "U+1F52", "U+1F53", "U+1F54", "U+1F55", "U+1F56", "U+1F57", "U+1F59", "U+1F5B", "U+1F5D",
     "U+1F5F", "U+1F60", "U+1F61", "U+1F62", "U+1F63", "U+1F64", "U+1F65", "U+1F66", "U+1F67",
     "U+1F68", "U+1F69", "U+1F6A", "U+1F6B", "U+1F6C", "U+1F6D", "U+1F6E", "U+1F6F", "U+1F70",
     "U+1F71", "U+1F72", "U+1F73", "U+1F74", "U+1F75", "U+1F76", "U+1F77", "U+1F78", "U+1F79",
     "U+1F7A", "U+1F7B", "U+1F7C", "U+1F7D", "U+1F80", "U+1F81", "U+1F82", "U+1F83", "U+1F84",
     "U+1F85", "U+1F86", "U+1F87", "U+1F88", "U+1F89", "U+1F8A", "U+1F8B", "U+1F8C", "U+1F8D",
     "U+1F8E", "U+1F8F", "U+1F90", "U+1F91", "U+1F92", "U+1F93", "U+1F94", "U+1F95", "U+1F96",
     "U+1F97", "U+1F98", "U+1F99", "U+1F9A", "U+1F9B", "U+1F9C", "U+1F9D", "U+1F9E", "U+1F9F",
     "U+1FA0", "U+1FA1", "U+1FA2", "U+1FA3", "U+1FA4", "U+1FA5", "U+1FA6", "U+1FA7", "U+1FA8",
     "U+1FA9", "U+1FAA", "U+1FAB", "U+1FAC", "U+1FAD", "U+1FAE", "U+1FAF", "U+1FB0", "U+1FB1",
     "U+1FB2", "U+1FB3", "U+1FB4", "U+1FB6", "U+1FB7", "U+1FB8", "U+1FB9", "U+1FBA", "U+1FBB",
     "U+1FBC", "U+1FBE", "U+1FC2", "U+1FC3", "U+1FC4", "U+1FC6", "U+1FC7", "U+1FC8", "U+1FC9",
     "U+1FCA", "U+1FCB", "U+1FCC", "U+1FD0", "U+1FD1", "U+1FD2", "U+1FD3", "U+1FD6", "U+1FD7",
     "U+1FD8", "U+1FD9", "U+1FDA", "U+1FDB", "U+1FE0", "U+1FE1", "U+1FE2", "U+1FE3", "U+1FE4",
     "U+1FE5", "U+1FE6", "U+1FE7", "U+1FE8", "U+1FE9", "U+1FEA", "U+1FEB", "U+1FEC", "U+1FF2",
     "U+1FF3", "U+1FF4", "U+1FF6", "U+1FF7", "U+1FF8", "U+1FF9", "U+1FFA", "U+1FFB", "U+1FFC",
     "U+2102", "U+2107", "U+210A", "U+210B", "U+210C", "U+210D", "U+210E", "U+210F", "U+2110",
     "U+2111", "U+2112", "U+2113", "U+2115", "U+2119", "U+211A", "U+211B", "U+211C", "U+211D",
     "U+2124", "U+2126", "U+2128", "U+212A", "U+212B", "U+212C", "U+212D", "U+212F", "U+2130",
     "U+2131", "U+2132", "U+2133", "U+2134", "U+2139", "U+213C", "U+213D", "U+213E", "U+213F",
     "U+2145", "U+2146", "U+2147", "U+2148", "U+2149", "U+214E", "U+2160", "U+2161", "U+2162",
     "U+2163", "U+2164", "U+2165", "U+2166", "U+2167", "U+2168", "U+2169", "U+216A", "U+216B",
     "U+216C", "U+216D", "U+216E", "U+216F", "U+2170", "U+2171", "U+2172", "U+2173", "U+2174",
     "U+2175", "U+2176", "U+2177", "U+2178", "U+2179", "U+217A", "U+217B", "U+217C", "U+217D",
     "U+217E", "U+217F", "U+2183", "U+2184", "U+24B6", "U+24B7", "U+24B8", "U+24B9", "U+24BA",
     "U+24BB", "U+24BC", "U+24BD", "U+24BE", "U+24BF", "U+24C0", "U+24C1", "U+24C2", "U+24C3",
     "U+24C4", "U+24C5", "U+24C6", "U+24C7", "U+24C8", "U+24C9", "U+24CA", "U+24CB", "U+24CC",
     "U+24CD", "U+24CE", "U+24CF", "U+24D0", "U+24D1", "U+24D2", "U+24D3", "U+24D4", "U+24D5",
     "U+24D6", "U+24D7", "U+24D8", "U+24D9", "U+24DA", "U+24DB", "U+24DC", "U+24DD", "U+24DE",
     "U+24DF", "U+24E0", "U+24E1", "U+24E2", "U+24E3", "U+24E4", "U+24E5", "U+24E6", "U+24E7",
     "U+24E8", "U+24E9", "U+2C00", "U+2C01", "U+2C02", "U+2C03", "U+2C04", "U+2C05", "U+2C06",
     "U+2C07", "U+2C08", "U+2C09", "U+2C0A", "U+2C0B", "U+2C0C", "U+2C0D", "U+2C0E", "U+2C0F",
     "U+2C10", "U+2C11", "U+2C12", "U+2C13", "U+2C14", "U+2C15", "U+2C16", "U+2C17", "U+2C18",
     "U+2C19", "U+2C1A", "U+2C1B", "U+2C1C", "U+2C1D", "U+2C1E", "U+2C1F", "U+2C20", "U+2C21",
     "U+2C22", "U+2C23", "U+2C24", "U+2C25", "U+2C26", "U+2C27", "U+2C28", "U+2C29", "U+2C2A",
     "U+2C2B", "U+2C2C", "U+2C2D", "U+2C2E", "U+2C2F", "U+2C30", "U+2C31", "U+2C32", "U+2C33",
     "U+2C34", "U+2C35", "U+2C36", "U+2C37", "U+2C38", "U+2C39", "U+2C3A", "U+2C3B", "U+2C3C",
     "U+2C3D", "U+2C3E", "U+2C3F", "U+2C40", "U+2C41", "U+2C42", "U+2C43", "U+2C44", "U+2C45",
     "U+2C46", "U+2C47", "U+2C48", "U+2C49", "U+2C4A", "U+2C4B", "U+2C4C", "U+2C4D", "U+2C4E",
     "U+2C4F", "U+2C50", "U+2C51", "U+2C52", "U+2C53", "U+2C54", "U+2C55", "U+2C56", "U+2C57",
     "U+2C58", "U+2C59", "U+2C5A", "U+2C5B", "U+2C5C", "U+2C5D", "U+2C5E", "U+2C5F", "U+2C60",
     "U+2C61", "U+2C62", "U+2C63", "U+2C64", "U+2C65", "U+2C66", "U+2C67", "U+2C68", "U+2C69",
     "U+2C6A", "U+2C6B", "U+2C6C", "U+2C6D", "U+2C6E", "U+2C6F", "U+2C70", "U+2C71", "U+2C72",
     "U+2C73", "U+2C74", "U+2C75", "U+2C76", "U+2C77", "U+2C78", "U+2C79", "U+2C7A", "U+2C7B",
     "U+2C7E", "U+2C7F", "U+2C80", "U+2C81", "U+2C82", "U+2C83", "U+2C84", "U+2C85", "U+2C86",
     "U+2C87", "U+2C88", "U+2C89", "U+2C8A", "U+2C8B", "U+2C8C", "U+2C8D", "U+2C8E", "U+2C8F",
     "U+2C90", "U+2C91", "U+2C92", "U+2C93", "U+2C94", "U+2C95", "U+2C96", "U+2C97", "U+2C98",
     "U+2C99", "U+2C9A", "U+2C9B", "U+2C9C", "U+2C9D", "U+2C9E", "U+2C9F", "U+2CA0", "U+2CA1",
     "U+2CA2", "U+2CA3", "U+2CA4", "U+2CA5", "U+2CA6", "U+2CA7", "U+2CA8", "U+2CA9", "U+2CAA",
     "U+2CAB", "U+2CAC", "U+2CAD", "U+2CAE", "U+2CAF", "U+2CB0", "U+2CB1", "U+2CB2", "U+2CB3",
     "U+2CB4", "U+2CB5", "U+2CB6", "U+2CB7", "U+2CB8", "U+2CB9", "U+2CBA", "U+2CBB", "U+2CBC",
     "U+2CBD", "U+2CBE", "U+2CBF", "U+2CC0", "U+2CC1", "U+2CC2", "U+2CC3", "U+2CC4", "U+2CC5",
     "U+2CC6", "U+2CC7", "U+2CC8", "U+2CC9", "U+2CCA", "U+2CCB", "U+2CCC", "U+2CCD", "U+2CCE",
     "U+2CCF", "U+2CD0", "U+2CD1", "U+2CD2", "U+2CD3", "U+2CD4", "U+2CD5", "U+2CD6", "U+2CD7",
     "U+2CD8", "U+2CD9", "U+2CDA", "U+2CDB", "U+2CDC", "U+2CDD", "U+2CDE", "U+2CDF", "U+2CE0",
     "U+2CE1", "U+2CE2", "U+2CE3", "U+2CE4", "U+2CEB", "U+2CEC", "U+2CED", "U+2CEE", "U+2CF2",
     "U+2CF3", "U+2D00", "U+2D01", "U+2D02", "U+2D03", "U+2D04", "U+2D05", "U+2D06", "U+2D07",
     "U+2D08", "U+2D09", "U+2D0A", "U+2D0B", "U+2D0C", "U+2D0D", "U+2D0E", "U+2D0F", "U+2D10",
     "U+2D11", "U+2D12", "U+2D13", "U+2D14", "U+2D15", "U+2D16", "U+2D17", "U+2D18", "U+2D19",
     "U+2D1A", "U+2D1B", "U+2D1C", "U+2D1D", "U+2D1E", "U+2D1F", "U+2D20", "U+2D21", "U+2D22",
     "U+2D23", "U+2D24", "U+2D25", "U+2D27", "U+2D2D", "U+A640", "U+A641", "U+A642", "U+A643",
     "U+A644", "U+A645", "U+A646", "U+A647", "U+A648", "U+A649", "U+A64A", "U+A64B", "U+A64C",
     "U+A64D", "U+A64E", "U+A64F", "U+A650", "U+A651", "U+A652", "U+A653", "U+A654", "U+A655",
     "U+A656", "U+A657", "U+A658", "U+A659", "U+A65A", "U+A65B", "U+A65C", "U+A65D", "U+A65E",
     "U+A65F", "U+A660", "U+A661", "U+A662", "U+A663", "U+A664", "U+A665", "U+A666", "U+A667",
     "U+A668", "U+A669", "U+A66A", "U+A66B", "U+A66C", "U+A66D", "U+A680", "U+A681", "U+A682",
     "U+A683", "U+A684", "U+A685", "U+A686", "U+A687", "U+A688", "U+A689", "U+A68A", "U+A68B",
     "U+A68C", "U+A68D", "U+A68E", "U+A68F", "U+A690", "U+A691", "U+A692", "U+A693", "U+A694",
     "U+A695", "U+A696", "U+A697", "U+A698", "U+A699", "U+A69A", "U+A69B", "U+A722", "U+A723",
     "U+A724", "U+A725", "U+A726", "U+A727", "U+A728", "U+A729", "U+A72A", "U+A72B", "U+A72C",
     "U+A72D", "U+A72E", "U+A72F", "U+A730", "U+A731", "U+A732", "U+A733", "U+A734", "U+A735",
     "U+A736", "U+A737", "U+A738", "U+A739", "U+A73A", "U+A73B", "U+A73C", "U+A73D", "U+A73E",
     "U+A73F", "U+A740", "U+A741", "U+A742", "U+A743", "U+A744", "U+A745", "U+A746", "U+A747",
     "U+A748", "U+A749", "U+A74A", "U+A74B", "U+A74C", "U+A74D", "U+A74E", "U+A74F", "U+A750",
     "U+A751", "U+A752", "U+A753", "U+A754", "U+A755", "U+A756", "U+A757", "U+A758", "U+A759",
     "U+A75A", "U+A75B", "U+A75C", "U+A75D", "U+A75E", "U+A75F", "U+A760", "U+A761", "U+A762",
     "U+A763", "U+A764", "U+A765", "U+A766", "U+A767", "U+A768", "U+A769", "U+A76A", "U+A76B",
     "U+A76C", "U+A76D", "U+A76E", "U+A76F", "U+A771", "U+A772", "U+A773", "U+A774", "U+A775",
     "U+A776", "U+A777", "U+A778", "U+A779", "U+A77A", "U+A77B", "U+A77C", "U+A77D", "U+A77E",
     "U+A77F", "U+A780", "U+A781", "U+A782", "U+A783", "U+A784", "U+A785", "U+A786", "U+A787",
     "U+A78B", "U+A78C", "U+A78D", "U+A78E", "U+A790", "U+A791", "U+A792", "U+A793", "U+A794",
     "U+A795", "U+A796", "U+A797", "U+A798", "U+A799", "U+A79A", "U+A79B", "U+A79C", "U+A79D",
     "U+A79E", "U+A79F", "U+A7A0", "U+A7A1", "U+A7A2", "U+A7A3", "U+A7A4", "U+A7A5", "U+A7A6",
     "U+A7A7", "U+A7A8", "U+A7A9", "U+A7AA", "U+A7AB", "U+A7AC", "U+A7AD", "U+A7AE", "U+A7AF",
     "U+A7B0", "U+A7B1", "U+A7B2", "U+A7B3", "U+A7B4", "U+A7B5", "U+A7B6", "U+A7B7", "U+A7B8",
     "U+A7B9", "U+A7BA", "U+A7BB", "U+A7BC", "U+A7BD", "U+A7BE", "U+A7BF", "U+A7C0", "U+A7C1",
     "U+A7C2", "U+A7C3", "U+A7C4", "U+A7C5", "U+A7C6", "U+A7C7", "U+A7C8", "U+A7C9", "U+A7CA",
     "U+A7CB", "U+A7CC", "U+A7CD", "U+A7CE", "U+A7CF", "U+A7D0", "U+A7D1", "U+A7D2", "U+A7D3",
     "U+A7D4", "U+A7D5", "U+A7D6", "U+A7D7", "U+A7D8", "U+A7D9", "U+A7DA", "U+A7DB", "U+A7DC",
     "U+A7F5", "U+A7F6", "U+A7FA", "U+AB30", "U+AB31", "U+AB32", "U+AB33", "U+AB34", "U+AB35",
     "U+AB36", "U+AB37", "U+AB38", "U+AB39", "U+AB3A", "U+AB3B", "U+AB3C", "U+AB3D", "U+AB3E",
     "U+AB3F", "U+AB40", "U+AB41", "U+AB42", "U+AB43", "U+AB44", "U+AB45", "U+AB46", "U+AB47",
     "U+AB48", "U+AB49", "U+AB4A", "U+AB4B", "U+AB4C", "U+AB4D", "U+AB4E", "U+AB4F", "U+AB50",
     "U+AB51", "U+AB52", "U+AB53", "U+AB54", "U+AB55", "U+AB56", "U+AB57", "U+AB58", "U+AB59",
     "U+AB5A", "U+AB60", "U+AB61", "U+AB62", "U+AB63", "U+AB64", "U+AB65", "U+AB66", "U+AB67",
     "U+AB68", "U+AB70", "U+AB71", "U+AB72", "U+AB73", "U+AB74", "U+AB75", "U+AB76", "U+AB77",
     "U+AB78", "U+AB79", "U+AB7A", "U+AB7B", "U+AB7C", "U+AB7D", "U+AB7E", "U+AB7F", "U+AB80",
     "U+AB81", "U+AB82", "U+AB83", "U+AB84", "U+AB85", "U+AB86", "U+AB87", "U+AB88", "U+AB89",
     "U+AB8A", "U+AB8B", "U+AB8C", "U+AB8D", "U+AB8E", "U+AB8F", "U+AB90", "U+AB91", "U+AB92",
     "U+AB93", "U+AB94", "U+AB95", "U+AB96", "U+AB97", "U+AB98", "U+AB99", "U+AB9A", "U+AB9B",
     "U+AB9C", "U+AB9D", "U+AB9E", "U+AB9F", "U+ABA0", "U+ABA1", "U+ABA2", "U+ABA3", "U+ABA4",
     "U+ABA5", "U+ABA6", "U+ABA7", "U+ABA8", "U+ABA9", "U+ABAA", "U+ABAB", "U+ABAC", "U+ABAD",
     "U+ABAE", "U+ABAF", "U+ABB0", "U+ABB1", "U+ABB2", "U+ABB3", "U+ABB4", "U+ABB5", "U+ABB6",
     "U+ABB7", "U+ABB8", "U+ABB9", "U+ABBA", "U+ABBB", "U+ABBC", "U+ABBD", "U+ABBE", "U+ABBF",
     "U+FB00", "U+FB01", "U+FB02", "U+FB03", "U+FB04", "U+FB05", "U+FB06", "U+FB13", "U+FB14",
     "U+FB15", "U+FB16", "U+FB17", "U+FF21", "U+FF22", "U+FF23", "U+FF24", "U+FF25", "U+FF26",
     "U+FF27", "U+FF28", "U+FF29", "U+FF2A", "U+FF2B", "U+FF2C", "U+FF2D", "U+FF2E", "U+FF2F",
     "U+FF30", "U+FF31", "U+FF32", "U+FF33", "U+FF34", "U+FF35", "U+FF36", "U+FF37", "U+FF38",
     "U+FF39", "U+FF3A", "U+FF41", "U+FF42", "U+FF43", "U+FF44", "U+FF45", "U+FF46", "U+FF47",
     "U+FF48", "U+FF49", "U+FF4A", "U+FF4B", "U+FF4C", "U+FF4D", "U+FF4E", "U+FF4F", "U+FF50",
     "U+FF51", "U+FF52", "U+FF53", "U+FF54", "U+FF55", "U+FF56", "U+FF57", "U+FF58", "U+FF59",
     "U+FF5A"}

\* the code units that are the first and the second half of a surrogate pair
HighSurrogates ==
    {"U+D800", "U+D801", "U+D802", "U+D803", "U+D804", "U+D805", "U+D806", "U+D807", "U+D808",
     "U+D809", "U+D80A", "U+D80B", "U+D80C", "U+D80D", "U+D80E", "U+D80F", "U+D810", "U+D811",
     "U+D812", "U+D813", "U+D814", "U+D815", "U+D816", "U+D817", "U+D818", "U+D819", "U+D81A",
     "U+D81B", "U+D81C", "U+D81D", "U+D81E", "U+D81F", "U+D820", "U+D821", "U+D822", "U+D823",
     "U+D824", "U+D825", "U+D826", "U+D827", "U+D828", "U+D829", "U+D82A", "U+D82B", "U+D82C",
     "U+D82D", "U+D82E", "U+D82F", "U+D830", "U+D831", "U+D832", "U+D833", "U+D834", "U+D835",
     "U+D836", "U+D837", "U+D838", "U+D839", "U+D83A", "U+D83B", "U+D83C", "U+D83D", "U+D83E",
     "U+D83F", "U+D840", "U+D841", "U+D842", "U+D843", "U+D844", "U+D845", "U+D846", "U+D847",
     "U+D848", "U+D849", "U+D84A", "U+D84B", "U+D84C", "U+D84D", "U+D84E", "U+D84F", "U+D850",
     "U+D851", "U+D852", "U+D853", "U+D854", "U+D855", "U+D856", "U+D857", "U+D858", "U+D859",
     "U+D85A", "U+D85B", "U+D85C", "U+D85D", "U+D85E", "U+D85F", "U+D860", "U+D861", "U+D862",
     "U+D863", "U+D864", "U+D865", "U+D866", "U+D867", "U+D868", "U+D869", "U+D86A", "U+D86B",
     "U+D86C", "U+D86D", "U+D86E", "U+D86F", "U+D870", "U+D871", "U+D872", "U+D873", "U+D874",
     "U+D875", "U+D876", "U+D877", "U+D878", "U+D879", "U+D87A", "U+D87B", "U+D87C", "U+D87D",
     "U+D87E", "U+D87F", "U+D880", "U+D881", "U+D882", "U+D883", "U+D884", "U+D885", "U+D886",
     "U+D887", "U+D888", "U+D889", "U+D88A", "U+D88B", "U+D88C", "U+D88D", "U+D88E", "U+D88F",
     "U+D890", "U+D891", "U+D892", "U+D893", "U+D894", "U+D895", "U+D896", "U+D897", "U+D898",
     "U+D899", "U+D89A", "U+D89B", "U+D89C", "U+D89D", "U+D89E", "U+D89F", "U+D8A0", "U+D8A1",
     "U+D8A2", "U+D8A3", "U+D8A4", "U+D8A5", "U+D8A6", "U+D8A7", "U+D8A8", "U+D8A9", "U+D8AA",
     "U+D8AB", "U+D8AC", "U+D8AD", "U+D8AE", "U+D8AF", "U+D8B0", "U+D8B1", "U+D8B2", "U+D8B3",
     "U+D8B4", "U+D8B5", "U+D8B6", "U+D8B7", "U+D8B8", "U+D8B9", "U+D8BA", "U+D8BB", "U+D8BC",
     "U+D8BD", "U+D8BE", "U+D8BF", "U+D8C0", "U+D8C1", "U+D8C2", "U+D8C3", "U+D8C4", "U+D8C5",
     "U+D8C6", "U+D8C7", "U+D8C8", "U+D8C9", "U+D8CA", "U+D8CB", "U+D8CC", "U+D8CD", "U+D8CE",
     "U+D8CF", "U+D8D0", "U+D8D1", "U+D8D2", "U+D8D3", "U+D8D4", "U+D8D5", "U+D8D6", "U+D8D7",
     "U+D8D8", "U+D8D9", "U+D8DA", "U+D8DB", "U+D8DC", "U+D8DD", "U+D8DE", "U+D8DF", "U+D8E0",
     "U+D8E1", "U+D8E2", "U+D8E3", "U+D8E4", "U+D8E5", "U+D8E6", "U+D8E7", "U+D8E8", "U+D8E9",
     "U+D8EA", "U+D8EB", "U+D8EC", "U+D8ED", "U+D8EE", "U+D8EF", "U+D8F0", "U+D8F1", "U+D8F2",
     "U+D8F3", "U+D8F4", "U+D8F5", "U+D8F6", "U+D8F7", "U+D8F8", "U+D8F9", "U+D8FA", "U+D8FB",
     "U+D8FC", "U+D8FD", "U+D8FE", "U+D8FF", "U+D900", "U+D901", "U+D902", "U+D903", "U+D904",
     "U+D905", "U+D906", "U+D907", "U+D908", "U+D909", "U+D90A", "U+D90B", "U+D90C", "U+D90D",
     "U+D90E", "U+D90F", "U+D910", "U+D911", "U+D912", "U+D913", "U+D914", "U+D915", "U+D916",
     "U+D917", "U+D918", "U+D919", "U+D91A", "U+D91B", "U+D91C", "U+D91D", "U+D91E", "U+D91F",
     "U+D920", "U+D921", "U+D922", "U+D923", "U+D924", "U+D925", "U+D926", "U+D927", "U+D928",
     "U+D929", "U+D92A", "U+D92B", "U+D92C", "U+D92D", "U+D92E", "U+D92F", "U+D930", "U+D931",
     "U+D932", "U+D933", "U+D934", "U+D935", "U+D936", "U+D937", "U+D938", "U+D939", "U+D93A",
     "U+D93B", "U+D93C", "U+D93D", "U+D93E", "U+D93F", "U+D940", "U+D941", "U+D942", "U+D943",
     "U+D944", "U+D945", "U+D946", "U+D947", "U+D948", "U+D949", "U+D94A", "U+D94B", "U+D94C",
     "U+D94D", "U+D94E", "U+D94F", "U+D950", "U+D951", "U+D952", "U+D953", "U+D954", "U+D955",
     "U+D956", "U+D957", "U+D958", "U+D959", "U+D95A", "U+D95B", "U+D95C", "U+D95D", "U+D95E",
     "U+D95F", "U+D960", "U+D961", "U+D962", "U+D963", "U+D964", "U+D965", "U+D966", "U+D967",
     "U+D968", "U+D969", "U+D96A", "U+D96B", "U+D96C", "U+D96D", "U+D96E", "U+D96F", "U+D970",
     "U+D971", "U+D972", "U+D973", "U+D974", "U+D975", "U+D976", "U+D977", "U+D978", "U+D979",
     "U+D97A", "U+D97B", "U+D97C", "U+D97D", "U+D97E", "U+D97F", "U+D980", "U+D981", "U+D982",
     "U+D983", "U+D984", "U+D985", "U+D986", "U+D987", "U+D988", "U+D989", "U+D98A", "U+D98B",
     "U+D98C", "U+D98D", "U+D98E", "U+D98F", "U+D990", "U+D991", "U+D992", "U+D993", "U+D994",
     "U+D995", "U+D996", "U+D997", "U+D998", "U+D999", "U+D99A", "U+D99B", "U+D99C", "U+D99D",
     "U+D99E", "U+D99F", "U+D9A0", "U+D9A1", "U+D9A2", "U+D9A3", "U+D9A4", "U+D9A5", "U+D9A6",
     "U+D9A7", "U+D9A8", "U+D9A9", "U+D9AA", "U+D9AB", "U+D9AC", "U+D9AD", "U+D9AE", "U+D9AF",
     "U+D9B0", "U+D9B1", "U+D9B2", "U+D9B3", "U+D9B4", "U+D9B5", "U+D9B6", "U+D9B7", "U+D9B8",
     "U+D9B9", "U+D9BA", "U+D9BB", "U+D9BC", "U+D9BD", "U+D9BE", "U+D9BF", "U+D9C0", "U+D9C1",
     "U+D9C2", "U+D9C3", "U+D9C4", "U+D9C5", "U+D9C6", "U+D9C7", "U+D9C8", "U+D9C9", "U+D9CA",
     "U+D9CB", "U+D9CC", "U+D9CD", "U+D9CE", "U+D9CF", "U+D9D0", "U+D9D1", "U+D9D2", "U+D9D3",
     "U+D9D4", "U+D9D5", "U+D9D6", "U+D9D7", "U+D9D8", "U+D9D9", "U+D9DA", "U+D9DB", "U+D9DC",
     "U+D9DD", "U+D9DE", "U+D9DF", "U+D9E0", "U+D9E1", "U+D9E2", "U+D9E3", "U+D9E4", "U+D9E5",
     "U+D9E6", "U+D9E7", "U+D9E8", "U+D9E9", "U+D9EA", "U+D9EB", "U+D9EC", "U+D9ED", "U+D9EE",
     "U+D9EF", "U+D9F0", "U+D9F1", "U+D9F2", "U+D9F3", "U+D9F4", "U+D9F5", "U+D9F6", "U+D9F7",
     "U+D9F8", "U+D9F9", "U+D9FA", "U+D9FB", "U+D9FC", "U+D9FD", "U+D9FE", "U+D9FF", "U+DA00",
     "U+DA01", "U+DA02", "U+DA03", "U+DA04", "U+DA05", "U+DA06", "U+DA07", "U+DA08", "U+DA09",
     "U+DA0A", "U+DA0B", "U+DA0C", "U+DA0D", "U+DA0E", "U+DA0F", "U+DA10", "U+DA11", "U+DA12",
     "U+DA13", "U+DA14", "U+DA15", "U+DA16", "U+DA17", "U+DA18", "U+DA19", "U+DA1A", "U+DA1B",
     "U+DA1C", "U+DA1D", "U+DA1E", "U+DA1F", "U+DA20", "U+DA21", "U+DA22", "U+DA23", "U+DA24",
     "U+DA25", "U+DA26", "U+DA27", "U+DA28", "U+DA29", "U+DA2A", "U+DA2B", "U+DA2C", "U+DA2D",
     "U+DA2E", "U+DA2F", "U+DA30", "U+DA31", "U+DA32", "U+DA33", "U+DA34", "U+DA35", "U+DA36",
     "U+DA37", "U+DA38", "U+DA39", "U+DA3A", "U+DA3B", "U+DA3C", "U+DA3D", "U+DA3E", "U+DA3F",
     "U+DA40", "U+DA41", "U+DA42", "U+DA43", "U+DA44", "U+DA45", "U+DA46", "U+DA47", "U+DA48",
     "U+DA49", "U+DA4A", "U+DA4B", "U+DA4C", "U+DA4D", "U+DA4E", "U+DA4F", "U+DA50", "U+DA51",
     "U+DA52", "U+DA53", "U+DA54", "U+DA55", "U+DA56", "U+DA57", "U+DA58", "U+DA59", "U+DA5A",
     "U+DA5B", "U+DA5C", "U+DA5D", "U+DA5E", "U+DA5F", "U+DA60", "U+DA61", "U+DA62", "U+DA63",
     "U+DA64", "U+DA65", "U+DA66", "U+DA67", "U+DA68", "U+DA69", "U+DA6A", "U+DA6B", "U+DA6C",
     "U+DA6D", "U+DA6E", "U+DA6F", "U+DA70", "U+DA71", "U+DA72", "U+DA73", "U+DA74", "U+DA75",
     "U+DA76", "U+DA77", "U+DA78", "U+DA79", "U+DA7A", "U+DA7B", "U+DA7C", "U+DA7D", "U+DA7E",
     "U+DA7F", "U+DA80", "U+DA81", "U+DA82", "U+DA83", "U+DA84", "U+DA85", "U+DA86", "U+DA87",
     "U+DA88", "U+DA89", "U+DA8A", "U+DA8B", "U+DA8C", "U+DA8D", "U+DA8E", "U+DA8F", "U+DA90",
     "U+DA91", "U+DA92", "U+DA93", "U+DA94", "U+DA95", "U+DA96", "U+DA97", "U+DA98", "U+DA99",
     "U+DA9A", "U+DA9B", "U+DA9C", "U+DA9D", "U+DA9E", "U+DA9F", "U+DAA0", "U+DAA1", "U+DAA2",
     "U+DAA3", "U+DAA4", "U+DAA5", "U+DAA6", "U+DAA7", "U+DAA8", "U+DAA9", "U+DAAA", "U+DAAB",
     "U+DAAC", "U+DAAD", "U+DAAE", "U+DAAF", "U+DAB0", "U+DAB1", "U+DAB2", "U+DAB3", "U+DAB4",
     "U+DAB5", "U+DAB6", "U+DAB7", "U+DAB8", "U+DAB9", "U+DABA", "U+DABB", "U+DABC", "U+DABD",
     "U+DABE", "U+DABF", "U+DAC0", "U+DAC1", "U+DAC2", "U+DAC3", "U+DAC4", "U+DAC5", "U+DAC6",
     "U+DAC7", "U+DAC8", "U+DAC9", "U+DACA", "U+DACB", "U+DACC", "U+DACD", "U+DACE", "U+DACF",
     "U+DAD0", "U+DAD1", "U+DAD2", "U+DAD3", "U+DAD4", "U+DAD5", "U+DAD6", "U+DAD7", "U+DAD8",
     "U+DAD9", "U+DADA", "U+DADB", "U+DADC", "U+DADD", "U+DADE", "U+DADF", "U+DAE0", "U+DAE1",
     "U+DAE2", "U+DAE3", "U+DAE4", "U+DAE5", "U+DAE6", "U+DAE7", "U+DAE8", "U+DAE9", "U+DAEA",
     "U+DAEB", "U+DAEC", "U+DAED", "U+DAEE", "U+DAEF", "U+DAF0", "U+DAF1", "U+DAF2", "U+DAF3",
     "U+DAF4", "U+DAF5", "U+DAF6", "U+DAF7", "U+DAF8", "U+DAF9", "U+DAFA", "U+DAFB", "U+DAFC",
     "U+DAFD", "U+DAFE", "U+DAFF", "U+DB00", "U+DB01", "U+DB02", "U+DB03", "U+DB04", "U+DB05",
     "U+DB06", "U+DB07", "U+DB08", "U+DB09", "U+DB0A", "U+DB0B", "U+DB0C", "U+DB0D", "U+DB0E",
     "U+DB0F", "U+DB10", "U+DB11", "U+DB12", "U+DB13", "U+DB14", "U+DB15", "U+DB16", "U+DB17",
     "U+DB18", "U+DB19", "U+DB1A", "U+DB1B", "U+DB1C", "U+DB1D", "U+DB1E", "U+DB1F", "U+DB20",
     "U+DB21", "U+DB22", "U+DB23", "U+DB24", "U+DB25", "U+DB26", "U+DB27", "U+DB28", "U+DB29",
     "U+DB2A", "U+DB2B", "U+DB2C", "U+DB2D", "U+DB2E", "U+DB2F", "U+DB30", "U+DB31", "U+DB32",
     "U+DB33", "U+DB34", "U+DB35", "U+DB36", "U+DB37", "U+DB38", "U+DB39", "U+DB3A", "U+DB3B",
     "U+DB3C", "U+DB3D", "U+DB3E", "U+DB3F", "U+DB40", "U+DB41", "U+DB42", "U+DB43", "U+DB44",
     "U+DB45", "U+DB46", "U+DB47", "U+DB48", "U+DB49", "U+DB4A", "U+DB4B", "U+DB4C", "U+DB4D",
     "U+DB4E", "U+DB4F", "U+DB50", "U+DB51", "U+DB52", "U+DB53", "U+DB54", "U+DB55", "U+DB56",
     "U+DB57", "U+DB58", "U+DB59", "U+DB5A", "U+DB5B", "U+DB5C", "U+DB5D", "U+DB5E", "U+DB5F",
     "U+DB60", "U+DB61", "U+DB62", "U+DB63", "U+DB64", "U+DB65", "U+DB66", "U+DB67", "U+DB68",
     "U+DB69", "U+DB6A", "U+DB6B", "U+DB6C", "U+DB6D", "U+DB6E", "U+DB6F", "U+DB70", "U+DB71",
     "U+DB72", "U+DB73", "U+DB74", "U+DB75", "U+DB76", "U+DB77", "U+DB78", "U+DB79", "U+DB7A",
     "U+DB7B", "U+DB7C", "U+DB7D", "U+DB7E", "U+DB7F", "U+DB80", "U+DB81", "U+DB82", "U+DB83",
     "U+DB84", "U+DB85", "U+DB86", "U+DB87", "U+DB88", "U+DB89", "U+DB8A", "U+DB8B", "U+DB8C",
     "U+DB8D", "U+DB8E", "U+DB8F", "U+DB90", "U+DB91", "U+DB92", "U+DB93", "U+DB94", "U+DB95",
     "U+DB96", "U+DB97", "U+DB98", "U+DB99", "U+DB9A", "U+DB9B", "U+DB9C", "U+DB9D", "U+DB9E",
     "U+DB9F", "U+DBA0", "U+DBA1", "U+DBA2", "U+DBA3", "U+DBA4", "U+DBA5", "U+DBA6", "U+DBA7",
     "U+DBA8", "U+DBA9", "U+DBAA", "U+DBAB", "U+DBAC", "U+DBAD", "U+DBAE", "U+DBAF", "U+DBB0",
     "U+DBB1", "U+DBB2", "U+DBB3", "U+DBB4", "U+DBB5", "U+DBB6", "U+DBB7", "U+DBB8", "U+DBB9",
     "U+DBBA", "U+DBBB", "U+DBBC", "U+DBBD", "U+DBBE", "U+DBBF", "U+DBC0", "U+DBC1", "U+DBC2",
     "U+DBC3", "U+DBC4", "U+DBC5", "U+DBC6", "U+DBC7", "U+DBC8", "U+DBC9", "U+DBCA", "U+DBCB",
     "U+DBCC", "U+DBCD", "U+DBCE", "U+DBCF", "U+DBD0", "U+DBD1", "U+DBD2", "U+DBD3", "U+DBD4",
     "U+DBD5", "U+DBD6", "U+DBD7", "U+DBD8", "U+DBD9", "U+DBDA", "U+DBDB", "U+DBDC", "U+DBDD",
     "U+DBDE", "U+DBDF", "U+DBE0", "U+DBE1", "U+DBE2", "U+DBE3", "U+DBE4", "U+DBE5", "U+DBE6",
     "U+DBE7", "U+DBE8", "U+DBE9", "U+DBEA", "U+DBEB", "U+DBEC", "U+DBED", "U+DBEE", "U+DBEF",
     "U+DBF0", "U+DBF1", "U+DBF2", "U+DBF3", "U+DBF4", "U+DBF5", "U+DBF6", "U+DBF7", "U+DBF8",
     "U+DBF9", "U+DBFA", "U+DBFB", "U+DBFC", "U+DBFD", "U+DBFE", "U+DBFF"}

LowSurrogates ==
    {"U+DC00", "U+DC01", "U+DC02", "U+DC03", "U+DC04", "U+DC05", "U+DC06", "U+DC07", "U+DC08",
     "U+DC09", "U+DC0A", "U+DC0B", "U+DC0C", "U+DC0D", "U+DC0E", "U+DC0F", "U+DC10", "U+DC11",
     "U+DC12", "U+DC13", "U+DC14", "U+DC15", "U+DC16", "U+DC17", "U+DC18", "U+DC19", "U+DC1A",
     "U+DC1B", "U+DC1C", "U+DC1D", "U+DC1E", "U+DC1F", "U+DC20", "U+DC21", "U+DC22", "U+DC23",
     "U+DC24", "U+DC25", "U+DC26", "U+DC27", "U+DC28", "U+DC29", "U+DC2A", "U+DC2B", "U+DC2C",
     "U+DC2D", "U+DC2E", "U+DC2F", "U+DC30", "U+DC31", "U+DC32", "U+DC33", "U+DC34", "U+DC35",
     "U+DC36", "U+DC37", "U+DC38", "U+DC39", "U+DC3A", "U+DC3B", "U+DC3C", "U+DC3D", "U+DC3E",
     "U+DC3F", "U+DC40", "U+DC41", "U+DC42", "U+DC43", "U+DC44", "U+DC45", "U+DC46", "U+DC47",
     "U+DC48", "U+DC49", "U+DC4A", "U+DC4B", "U+DC4C", "U+DC4D", "U+DC4E", "U+DC4F", "U+DC50",
     "U+DC51", "U+DC52", "U+DC53", "U+DC54", "U+DC55", "U+DC56", "U+DC57", "U+DC58", "U+DC59",
     "U+DC5A", "U+DC5B", "U+DC5C", "U+DC5D", "U+DC5E", "U+DC5F", "U+DC60", "U+DC61", "U+DC62",
     "U+DC63", "U+DC64", "U+DC65", "U+DC66", "U+DC67", "U+DC68", "U+DC69", "U+DC6A", "U+DC6B",
     "U+DC6C", "U+DC6D", "U+DC6E", "U+DC6F", "U+DC70", "U+DC71", "U+DC72", "U+DC73", "U+DC74",
     "U+DC75", "U+DC76", "U+DC77", "U+DC78", "U+DC79", "U+DC7A", "U+DC7B", "U+DC7C", "U+DC7D",
     "U+DC7E", "U+DC7F", "U+DC80", "U+DC81", "U+DC82", "U+DC83", "U+DC84", "U+DC85", "U+DC86",
     "U+DC87", "U+DC88", "U+DC89", "U+DC8A", "U+DC8B", "U+DC8C", "U+DC8D", "U+DC8E", "U+DC8F",
     "U+DC90", "U+DC91", "U+DC92", "U+DC93", "U+DC94", "U+DC95", "U+DC96", "U+DC97", "U+DC98",
     "U+DC99", "U+DC9A", "U+DC9B", "U+DC9C", "U+DC9D", "U+DC9E", "U+DC9F", "U+DCA0", "U+DCA1",
     "U+DCA2", "U+DCA3", "U+DCA4", "U+DCA5", "U+DCA6", "U+DCA7", "U+DCA8", "U+DCA9", "U+DCAA",
     "U+DCAB", "U+DCAC", "U+DCAD", "U+DCAE", "U+DCAF", "U+DCB0", "U+DCB1", "U+DCB2", "U+DCB3",
     "U+DCB4", "U+DCB5", "U+DCB6", "U+DCB7", "U+DCB8", "U+DCB9", "U+DCBA", "U+DCBB", "U+DCBC",
     "U+DCBD", "U+DCBE", "U+DCBF", "U+DCC0", "U+DCC1", "U+DCC2", "U+DCC3", "U+DCC4", "U+DCC5",
     "U+DCC6", "U+DCC7", "U+DCC8", "U+DCC9", "U+DCCA", "U+DCCB", "U+DCCC", "U+DCCD", "U+DCCE",
     "U+DCCF", "U+DCD0", "U+DCD1", "U+DCD2", "U+DCD3", "U+DCD4", "U+DCD5", "U+DCD6", "U+DCD7",
     "U+DCD8", "U+DCD9", "U+DCDA", "U+DCDB", "U+DCDC", "U+DCDD", "U+DCDE", "U+DCDF", "U+DCE0",
     "U+DCE1", "U+DCE2", "U+DCE3", "U+DCE4", "U+DCE5", "U+DCE6", "U+DCE7", "U+DCE8", "U+DCE9",
     "U+DCEA", "U+DCEB", "U+DCEC", "U+DCED", "U+DCEE", "U+DCEF", "U+DCF0", "U+DCF1", "U+DCF2",
     "U+DCF3", "U+DCF4", "U+DCF5", "U+DCF6", "U+DCF7", "U+DCF8", "U+DCF9", "U+DCFA", "U+DCFB",
     "U+DCFC", "U+DCFD", "U+DCFE", "U+DCFF", "U+DD00", "U+DD01", "U+DD02", "U+DD03", "U+DD04",
     "U+DD05", "U+DD06", "U+DD07", "U+DD08", "U+DD09", "U+DD0A", "U+DD0B", "U+DD0C", "U+DD0D",
     "U+DD0E", "U+DD0F", "U+DD10", "U+DD11", "U+DD12", "U+DD13", "U+DD14", "U+DD15", "U+DD16",
     "U+DD17", "U+DD18", "U+DD19", "U+DD1A", "U+DD1B", "U+DD1C", "U+DD1D", "U+DD1E", "U+DD1F",
     "U+DD20", "U+DD21", "U+DD22", "U+DD23", "U+DD24", "U+DD25", "U+DD26", "U+DD27", "U+DD28",
     "U+DD29", "U+DD2A", "U+DD2B", "U+DD2C", "U+DD2D", "U+DD2E", "U+DD2F", "U+DD30", "U+DD31",
     "U+DD32", "U+DD33", "U+DD34", "U+DD35", "U+DD36", "U+DD37", "U+DD38", "U+DD39", "U+DD3A",
     "U+DD3B", "U+DD3C", "U+DD3D", "U+DD3E", "U+DD3F", "U+DD40", "U+DD41", "U+DD42", "U+DD43",
     "U+DD44", "U+DD45", "U+DD46", "U+DD47", "U+DD48", "U+DD49", "U+DD4A", "U+DD4B", "U+DD4C",
     "U+DD4D", "U+DD4E", "U+DD4F", "U+DD50", "U+DD51", "U+DD52", "U+DD53", "U+DD54", "U+DD55",
     "U+DD56", "U+DD57", "U+DD58", "U+DD59", "U+DD5A", "U+DD5B", "U+DD5C", "U+DD5D", "U+DD5E",
     "U+DD5F", "U+DD60", "U+DD61", "U+DD62", "U+DD63", "U+DD64", "U+DD65", "U+DD66", "U+DD67",
     "U+DD68", "U+DD69", "U+DD6A", "U+DD6B", "U+DD6C", "U+DD6D", "U+DD6E", "U+DD6F", "U+DD70",
     "U+DD71", "U+DD72", "U+DD73", "U+DD74", "U+DD75", "U+DD76", "U+DD77", "U+DD78", "U+DD79",
     "U+DD7A", "U+DD7B", "U+DD7C", "U+DD7D", "U+DD7E", "U+DD7F", "U+DD80", "U+DD81", "U+DD82",
     "U+DD83", "U+DD84", "U+DD85", "U+DD86", "U+DD87", "U+DD88", "U+DD89", "U+DD8A", "U+DD8B",
     "U+DD8C", "U+DD8D", "U+DD8E", "U+DD8F", "U+DD90", "U+DD91", "U+DD92", "U+DD93", "U+DD94",
     "U+DD95", "U+DD96", "U+DD97", "U+DD98", "U+DD99", "U+DD9A", "U+DD9B", "U+DD9C", "U+DD9D",
     "U+DD9E", "U+DD9F", "U+DDA0", "U+DDA1", "U+DDA2", "U+DDA3", "U+DDA4", "U+DDA5", "U+DDA6",
     "U+DDA7", "U+DDA8", "U+DDA9", "U+DDAA", "U+DDAB", "U+DDAC", "U+DDAD", "U+DDAE", "U+DDAF",
     "U+DDB0", "U+DDB1", "U+DDB2", "U+DDB3", "U+DDB4", "U+DDB5", "U+DDB6", "U+DDB7", "U+DDB8",
     "U+DDB9", "U+DDBA", "U+DDBB", "U+DDBC", "U+DDBD", "U+DDBE", "U+DDBF", "U+DDC0", "U+DDC1",
     "U+DDC2", "U+DDC3", "U+DDC4", "U+DDC5", "U+DDC6", "U+DDC7", "U+DDC8", "U+DDC9", "U+DDCA",
     "U+DDCB", "U+DDCC", "U+DDCD", "U+DDCE", "U+DDCF", "U+DDD0", "U+DDD1", "U+DDD2", "U+DDD3",
     "U+DDD4", "U+DDD5", "U+DDD6", "U+DDD7", "U+DDD8", "U+DDD9", "U+DDDA", "U+DDDB", "U+DDDC",
     "U+DDDD", "U+DDDE", "U+DDDF", "U+DDE0", "U+DDE1", "U+DDE2", "U+DDE3", "U+DDE4", "U+DDE5",
     "U+DDE6", "U+DDE7", "U+DDE8", "U+DDE9", "U+DDEA", "U+DDEB", "U+DDEC", "U+DDED", "U+DDEE",
     "U+DDEF", "U+DDF0", "U+DDF1", "U+DDF2", "U+DDF3", "U+DDF4", "U+DDF5", "U+DDF6", "U+DDF7",
     "U+DDF8", "U+DDF9", "U+DDFA", "U+DDFB", "U+DDFC", "U+DDFD", "U+DDFE", "U+DDFF", "U+DE00",
     "U+DE01", "U+DE02", "U+DE03", "U+DE04", "U+DE05", "U+DE06", "U+DE07", "U+DE08", "U+DE09",
     "U+DE0A", "U+DE0B", "U+DE0C", "U+DE0D", "U+DE0E", "U+DE0F", "U+DE10", "U+DE11", "U+DE12",
     "U+DE13", "U+DE14", "U+DE15", "U+DE16", "U+DE17", "U+DE18", "U+DE19", "U+DE1A", "U+DE1B",
     "U+DE1C", "U+DE1D", "U+DE1E", "U+DE1F", "U+DE20", "U+DE21", "U+DE22", "U+DE23", "U+DE24",
     "U+DE25", "U+DE26", "U+DE27", "U+DE28", "U+DE29", "U+DE2A", "U+DE2B", "U+DE2C", "U+DE2D",
     "U+DE2E", "U+DE2F", "U+DE30", "U+DE31", "U+DE32", "U+DE33", "U+DE34", "U+DE35", "U+DE36",
     "U+DE37", "U+DE38", "U+DE39", "U+DE3A", "U+DE3B", "U+DE3C", "U+DE3D", "U+DE3E", "U+DE3F",
     "U+DE40", "U+DE41", "U+DE42", "U+DE43", "U+DE44", "U+DE45", "U+DE46", "U+DE47", "U+DE48",
     "U+DE49", "U+DE4A", "U+DE4B", "U+DE4C", "U+DE4D", "U+DE4E", "U+DE4F", "U+DE50", "U+DE51",
     "U+DE52", "U+DE53", "U+DE54", "U+DE55", "U+DE56", "U+DE57", "U+DE58", "U+DE59", "U+DE5A",
     "U+DE5B", "U+DE5C", "U+DE5D", "U+DE5E", "U+DE5F", "U+DE60", "U+DE61", "U+DE62", "U+DE63",
     "U+DE64", "U+DE65", "U+DE66", "U+DE67", "U+DE68", "U+DE69", "U+DE6A", "U+DE6B", "U+DE6C",
     "U+DE6D", "U+DE6E", "U+DE6F", "U+DE70", "U+DE71", "U+DE72", "U+DE73", "U+DE74", "U+DE75",
     "U+DE76", "U+DE77", "U+DE78", "U+DE79", "U+DE7A", "U+DE7B", "U+DE7C", "U+DE7D", "U+DE7E",
     "U+DE7F", "U+DE80", "U+DE81", "U+DE82", "U+DE83", "U+DE84", "U+DE85", "U+DE86", "U+DE87",
     "U+DE88", "U+DE89", "U+DE8A", "U+DE8B", "U+DE8C", "U+DE8D", "U+DE8E", "U+DE8F", "U+DE90",
     "U+DE91", "U+DE92", "U+DE93", "U+DE94", "U+DE95", "U+DE96", "U+DE97", "U+DE98", "U+DE99",
     "U+DE9A", "U+DE9B", "U+DE9C", "U+DE9D", "U+DE9E", "U+DE9F", "U+DEA0", "U+DEA1", "U+DEA2",
     "U+DEA3", "U+DEA4", "U+DEA5", "U+DEA6", "U+DEA7", "U+DEA8", "U+DEA9", "U+DEAA", "U+DEAB",
     "U+DEAC", "U+DEAD", "U+DEAE", "U+DEAF", "U+DEB0", "U+DEB1", "U+DEB2", "U+DEB3", "U+DEB4",
     "U+DEB5", "U+DEB6", "U+DEB7", "U+DEB8", "U+DEB9", "U+DEBA", "U+DEBB", "U+DEBC", "U+DEBD",
     "U+DEBE", "U+DEBF", "U+DEC0", "U+DEC1", "U+DEC2", "U+DEC3", "U+DEC4", "U+DEC5", "U+DEC6",
     "U+DEC7", "U+DEC8", "U+DEC9", "U+DECA", "U+DECB", "U+DECC", "U+DECD", "U+DECE", "U+DECF",
     "U+DED0", "U+DED1", "U+DED2", "U+DED3", "U+DED4", "U+DED5", "U+DED6", "U+DED7", "U+DED8",
     "U+DED9", "U+DEDA", "U+DEDB", "U+DEDC", "U+DEDD", "U+DEDE", "U+DEDF", "U+DEE0", "U+DEE1",
     "U+DEE2", "U+DEE3", "U+DEE4", "U+DEE5", "U+DEE6", "U+DEE7", "U+DEE8", "U+DEE9", "U+DEEA",
     "U+DEEB", "U+DEEC", "U+DEED", "U+DEEE", "U+DEEF", "U+DEF0", "U+DEF1", "U+DEF2", "U+DEF3",
     "U+DEF4", "U+DEF5", "U+DEF6", "U+DEF7", "U+DEF8", "U+DEF9", "U+DEFA", "U+DEFB", "U+DEFC",
     "U+DEFD", "U+DEFE", "U+DEFF", "U+DF00", "U+DF01", "U+DF02", "U+DF03", "U+DF04", "U+DF05",
     "U+DF06", "U+DF07", "U+DF08", "U+DF09", "U+DF0A", "U+DF0B", "U+DF0C", "U+DF0D", "U+DF0E",
     "U+DF0F", "U+DF10", "U+DF11", "U+DF12", "U+DF13", "U+DF14", "U+DF15", "U+DF16", "U+DF17",
     "U+DF18", "U+DF19", "U+DF1A", "U+DF1B", "U+DF1C", "U+DF1D", "U+DF1E", "U+DF1F", "U+DF20",
     "U+DF21", "U+DF22", "U+DF23", "U+DF24", "U+DF25", "U+DF26", "U+DF27", "U+DF28", "U+DF29",
     "U+DF2A", "U+DF2B", "U+DF2C", "U+DF2D", "U+DF2E", "U+DF2F", "U+DF30", "U+DF31", "U+DF32",
     "U+DF33", "U+DF34", "U+DF35", "U+DF36", "U+DF37", "U+DF38", "U+DF39", "U+DF3A", "U+DF3B",
     "U+DF3C", "U+DF3D", "U+DF3E", "U+DF3F", "U+DF40", "U+DF41", "U+DF42", "U+DF43", "U+DF44",
     "U+DF45", "U+DF46", "U+DF47", "U+DF48", "U+DF49", "U+DF4A", "U+DF4B", "U+DF4C", "U+DF4D",
     "U+DF4E", "U+DF4F", "U+DF50", "U+DF51", "U+DF52", "U+DF53", "U+DF54", "U+DF55", "U+DF56",
     "U+DF57", "U+DF58", "U+DF59", "U+DF5A", "U+DF5B", "U+DF5C", "U+DF5D", "U+DF5E", "U+DF5F",
     "U+DF60", "U+DF61", "U+DF62", "U+DF63", "U+DF64", "U+DF65", "U+DF66", "U+DF67", "U+DF68",
     "U+DF69", "U+DF6A", "U+DF6B", "U+DF6C", "U+DF6D", "U+DF6E", "U+DF6F", "U+DF70", "U+DF71",
     "U+DF72", "U+DF73", "U+DF74", "U+DF75", "U+DF76", "U+DF77", "U+DF78", "U+DF79", "U+DF7A",
     "U+DF7B", "U+DF7C", "U+DF7D", "U+DF7E", "U+DF7F", "U+DF80", "U+DF81", "U+DF82", "U+DF83",
     "U+DF84", "U+DF85", "U+DF86", "U+DF87", "U+DF88", "U+DF89", "U+DF8A", "U+DF8B", "U+DF8C",
     "U+DF8D", "U+DF8E", "U+DF8F", "U+DF90", "U+DF91", "U+DF92", "U+DF93", "U+DF94", "U+DF95",
     "U+DF96", "U+DF97", "U+DF98", "U+DF99", "U+DF9A", "U+DF9B", "U+DF9C", "U+DF9D", "U+DF9E",
     "U+DF9F", "U+DFA0", "U+DFA1", "U+DFA2", "U+DFA3", "U+DFA4", "U+DFA5", "U+DFA6", "U+DFA7",
     "U+DFA8", "U+DFA9", "U+DFAA", "U+DFAB", "U+DFAC", "U+DFAD", "U+DFAE", "U+DFAF", "U+DFB0",
     "U+DFB1", "U+DFB2", "U+DFB3", "U+DFB4", "U+DFB5", "U+DFB6", "U+DFB7", "U+DFB8", "U+DFB9",
     "U+DFBA", "U+DFBB", "U+DFBC", "U+DFBD", "U+DFBE", "U+DFBF", "U+DFC0", "U+DFC1", "U+DFC2",
     "U+DFC3", "U+DFC4", "U+DFC5", "U+DFC6", "U+DFC7", "U+DFC8", "U+DFC9", "U+DFCA", "U+DFCB",
     "U+DFCC", "U+DFCD", "U+DFCE", "U+DFCF", "U+DFD0", "U+DFD1", "U+DFD2", "U+DFD3", "U+DFD4",
     "U+DFD5", "U+DFD6", "U+DFD7", "U+DFD8", "U+DFD9", "U+DFDA", "U+DFDB", "U+DFDC", "U+DFDD",
     "U+DFDE", "U+DFDF", "U+DFE0", "U+DFE1", "U+DFE2", "U+DFE3", "U+DFE4", "U+DFE5", "U+DFE6",
     "U+DFE7", "U+DFE8", "U+DFE9", "U+DFEA", "U+DFEB", "U+DFEC", "U+DFED", "U+DFEE", "U+DFEF",
     "U+DFF0", "U+DFF1", "U+DFF2", "U+DFF3", "U+DFF4", "U+DFF5", "U+DFF6", "U+DFF7", "U+DFF8",
     "U+DFF9", "U+DFFA", "U+DFFB", "U+DFFC", "U+DFFD", "U+DFFE", "U+DFFF"}

\* the surrogate pairs of one high surrogate
Pairs(high, lows) == {<<high, low>> : low \in lows}

\* the same two properties outside the basic plane, by high surrogate
AstralCaseIgnorable ==
    Pairs("U+D800",
        {"U+DDFD", "U+DEE0", "U+DF76", "U+DF77", "U+DF78", "U+DF79", "U+DF7A"})
    \cup Pairs("U+D801",
        {"U+DF80", "U+DF81", "U+DF82", "U+DF83", "U+DF84", "U+DF85", "U+DF87", "U+DF88",
         "U+DF89", "U+DF8A", "U+DF8B", "U+DF8C", "U+DF8D", "U+DF8E", "U+DF8F", "U+DF90",
         "U+DF91", "U+DF92", "U+DF93", "U+DF94", "U+DF95", "U+DF96", "U+DF97", "U+DF98",
         "U+DF99", "U+DF9A", "U+DF9B", "U+DF9C", "U+DF9D", "U+DF9E", "U+DF9F", "U+DFA0",
         "U+DFA1", "U+DFA2", "U+DFA3", "U+DFA4", "U+DFA5", "U+DFA6", "U+DFA7", "U+DFA8",
         "U+DFA9", "U+DFAA", "U+DFAB", "U+DFAC", "U+DFAD", "U+DFAE", "U+DFAF", "U+DFB0",
         "U+DFB2", "U+DFB3", "U+DFB4", "U+DFB5", "U+DFB6", "U+DFB7", "U+DFB8", "U+DFB9",
         "U+DFBA"})
    \cup Pairs("U+D802",
        {"U+DE01", "U+DE02", "U+DE03", "U+DE05", "U+DE06", "U+DE0C", "U+DE0D", "U+DE0E",
         "U+DE0F", "U+DE38", "U+DE39", "U+DE3A", "U+DE3F", "U+DEE5", "U+DEE6"})
    \cup Pairs("U+D803",
        {"U+DD24", "U+DD25", "U+DD26", "U+DD27", "U+DD4E", "U+DD69", "U+DD6A", "U+DD6B",
         "U+DD6C", "U+DD6D", "U+DD6F", "U+DEAB", "U+DEAC", "U+DEC5", "U+DEFA", "U+DEFB",
         "U+DEFC", "U+DEFD", "U+DEFE", "U+DEFF", "U+DF46", "U+DF47", "U+DF48", "U+DF49",
         "U+DF4A", "U+DF4B", "U+DF4C", "U+DF4D", "U+DF4E", "U+DF4F", "U+DF50", "U+DF82",
         "U+DF83", "U+DF84", "U+DF85"})
    \cup Pairs("U+D804",
        {"U+DC01", "U+DC38", "U+DC39", "U+DC3A", "U+DC3B", "U+DC3C", "U+DC3D", "U+DC3E",
         "U+DC3F", "U+DC40", "U+DC41", "U+DC42", "U+DC43", "U+DC44", "U+DC45", "U+DC46",
         "U+DC70", "U+DC73", "U+DC74", "U+DC7F", "U+DC80", "U+DC81", "U+DCB3", "U+DCB4",
         "U+DCB5", "U+DCB6", "U+DCB9", "U+DCBA", "U+DCBD", "U+DCC2", "U+DCCD", "U+DD00",
         "U+DD01", "U+DD02", "U+DD27", "U+DD28", "U+DD29", "U+DD2A", "U+DD2B", "U+DD2D",
         "U+DD2E", "U+DD2F", "U+DD30", "U+DD31", "U+DD32", "U+DD33", "U+DD34", "U+DD73",
         "U+DD80", "U+DD81", "U+DDB6", "U+DDB7", "U+DDB8", "U+DDB9", "U+DDBA", "U+DDBB",
         "U+DDBC", "U+DDBD", "U+DDBE", "U+DDC9", "U+DDCA", "U+DDCB", "U+DDCC", "U+DDCF",
         "U+DE2F", "U+DE30", "U+DE31", "U+DE34", "U+DE36", "U+DE37", "U+DE3E", "U+DE41",
         "U+DEDF", "U+DEE3", "U+DEE4", "U+DEE5", "U+DEE6", "U+DEE7", "U+DEE8", "U+DEE9",
         "U+DEEA", "U+DF00", "U+DF01", "U+DF3B", "U+DF3C", "U+DF40", "U+DF66", "U+DF67",
         "U+DF68", "U+DF69", "U+DF6A", "U+DF6B", "U+DF6C", "U+DF70", "U+DF71", "U+DF72",
         "U+DF73", "U+DF74", "U+DFBB", "U+DFBC", "U+DFBD", "U+DFBE", "U+DFBF", "U+DFC0",
         "U+DFCE", "U+DFD0", "U+DFD2", "U+DFE1", "U+DFE2"})
    \cup Pairs("U+D805",
        {"U+DC38", "U+DC39", "U+DC3A", "U+DC3B", "U+DC3C", "U+DC3D", "U+DC3E", "U+DC3F",
         "U+DC42", "U+DC43", "U+DC44", "U+DC46", "U+DC5E", "U+DCB3", "U+DCB4", "U+DCB5",
         "U+DCB6", "U+DCB7", "U+DCB8", "U+DCBA", "U+DCBF", "U+DCC0", "U+DCC2", "U+DCC3",
         "U+DDB2", "U+DDB3", "U+DDB4", "U+DDB5", "U+DDBC", "U+DDBD", "U+DDBF", "U+DDC0",
         "U+DDDC", "U+DDDD", "U+DE33", "U+DE34", "U+DE35", "U+DE36", "U+DE37", "U+DE38",
         "U+DE39", "U+DE3A", "U+DE3D", "U+DE3F", "U+DE40", "U+DEAB", "U+DEAD", "U+DEB0",
         "U+DEB1", "U+DEB2", "U+DEB3", "U+DEB4", "U+DEB5", "U+DEB7", "U+DF1D", "U+DF1F",
         "U+DF22", "U+DF23", "U+DF24", "U+DF25", "U+DF27", "U+DF28", "U+DF29", "U+DF2A",
         "U+DF2B"})
    \cup Pairs("U+D806",
        {"U+DC2F", "U+DC30", "U+DC31", "U+DC32", "U+DC33", "U+DC34", "U+DC35", "U+DC36",
         "U+DC37", "U+DC39", "U+DC3A", "U+DD3B", "U+DD3C", "U+DD3E", "U+DD43", "U+DDD4",
         "U+DDD5", "U+DDD6", "U+DDD7", "U+DDDA", "U+DDDB", "U+DDE0", "U+DE01", "U+DE02",
         "U+DE03", "U+DE04", "U+DE05", "U+DE06", "U+DE07", "U+DE08", "U+DE09", "U+DE0A",
         "U+DE33", "U+DE34", "U+DE35", "U+DE36", "U+DE37", "U+DE38", "U+DE3B", "U+DE3C",
         "U+DE3D", "U+DE3E", "U+DE47", "U+DE51", "U+DE52", "U+DE53", "U+DE54", "U+DE55",
         "U+DE56", "U+DE59", "U+DE5A", "U+DE5B", "U+DE8A", "U+DE8B", "U+DE8C", "U+DE8D",
         "U+DE8E", "U+DE8F", "U+DE90", "U+DE91", "U+DE92", "U+DE93", "U+DE94", "U+DE95",
         "U+DE96", "U+DE98", "U+DE99", "U+DF60", "U+DF62", "U+DF63", "U+DF64", "U+DF66"})
    \cup Pairs("U+D807",
        {"U+DC30", "U+DC31", "U+DC32", "U+DC33", "U+DC34", "U+DC35", "U+DC36", "U+DC38",
         "U+DC39", "U+DC3A", "U+DC3B", "U+DC3C", "U+DC3D", "U+DC3F", "U+DC92", "U+DC93",
         "U+DC94", "U+DC95", "U+DC96", "U+DC97", "U+DC98", "U+DC99", "U+DC9A", "U+DC9B",
         "U+DC9C", "U+DC9D", "U+DC9E", "U+DC9F", "U+DCA0", "U+DCA1", "U+DCA2", "U+DCA3",
         "U+DCA4", "U+DCA5", "U+DCA6", "U+DCA7", "U+DCAA", "U+DCAB", "U+DCAC", "U+DCAD",
         "U+DCAE", "U+DCAF", "U+DCB0", "U+DCB2", "U+DCB3", "U+DCB5", "U+DCB6", "U+DD31",
         "U+DD32", "U+DD33", "U+DD34", "U+DD35", "U+DD36", "U+DD3A", "U+DD3C", "U+DD3D",
         "U+DD3F", "U+DD40", "U+DD41", "U+DD42", "U+DD43", "U+DD44", "U+DD45", "U+DD47",
         "U+DD90", "U+DD91", "U+DD95", "U+DD97", "U+DDD9", "U+DEF3", "U+DEF4", "U+DF00",
         "U+DF01", "U+DF36", "U+DF37", "U+DF38", "U+DF39", "U+DF3A", "U+DF40", "U+DF42",
         "U+DF5A"})
    \cup Pairs("U+D80D",
        {"U+DC30", "U+DC31", "U+DC32", "U+DC33", "U+DC34", "U+DC35", "U+DC36", "U+DC37",
         "U+DC38", "U+DC39", "U+DC3A", "U+DC3B", "U+DC3C", "U+DC3D", "U+DC3E", "U+DC3F",
         "U+DC40", "U+DC47", "U+DC48", "U+DC49", "U+DC4A", "U+DC4B", "U+DC4C", "U+DC4D",
         "U+DC4E", "U+DC4F", "U+DC50", "U+DC51", "U+DC52", "U+DC53", "U+DC54", "U+DC55"})
    \cup Pairs("U+D818",
        {"U+DD1E", "U+DD1F", "U+DD20", "U+DD21", "U+DD22", "U+DD23", "U+DD24", "U+DD25",
         "U+DD26", "U+DD27", "U+DD28", "U+DD29", "U+DD2D", "U+DD2E", "U+DD2F"})
    \cup Pairs("U+D81A",
        {"U+DEF0", "U+DEF1", "U+DEF2", "U+DEF3", "U+DEF4", "U+DF30", "U+DF31", "U+DF32",
         "U+DF33", "U+DF34", "U+DF35", "U+DF36", "U+DF40", "U+DF41", "U+DF42", "U+DF43"})
    \cup Pairs("U+D81B",
        {"U+DD40", "U+DD41", "U+DD42", "U+DD6B", "U+DD6C", "U+DF4F", "U+DF8F", "U+DF90",
         "U+DF91", "U+DF92", "U+DF93", "U+DF94", "U+DF95", "U+DF96", "U+DF97", "U+DF98",
         "U+DF99", "U+DF9A", "U+DF9B", "U+DF9C", "U+DF9D", "U+DF9E", "U+DF9F", "U+DFE0",
         "U+DFE1", "U+DFE3", "U+DFE4", "U+DFF2", "U+DFF3"})
    \cup Pairs("U+D82B",
        {"U+DFF0", "U+DFF1", "U+DFF2", "U+DFF3", "U+DFF5", "U+DFF6", "U+DFF7", "U+DFF8",
         "U+DFF9", "U+DFFA", "U+DFFB", "U+DFFD", "U+DFFE"})
    \cup Pairs("U+D82F",
        {"U+DC9D", "U+DC9E", "U+DCA0", "U+DCA1", "U+DCA2", "U+DCA3"})
    \cup Pairs("U+D833",
        {"U+DF00", "U+DF01", "U+DF02", "U+DF03", "U+DF04", "U+DF05", "U+DF06", "U+DF07",
         "U+DF08", "U+DF09", "U+DF0A", "U+DF0B", "U+DF0C", "U+DF0D", "U+DF0E", "U+DF0F",
         "U+DF10", "U+DF11", "U+DF12", "U+DF13", "U+DF14", "U+DF15", "U+DF16", "U+DF17",
         "U+DF18", "U+DF19", "U+DF1A", "U+DF1B", "U+DF1C", "U+DF1D", "U+DF1E", "U+DF1F",
         "U+DF20", "U+DF21", "U+DF22", "U+DF23", "U+DF24", "U+DF25", "U+DF26", "U+DF27",
         "U+DF28", "U+DF29", "U+DF2A", "U+DF2B", "U+DF2C", "U+DF2D", "U+DF30", "U+DF31",
         "U+DF32", "U+DF33", "U+DF34", "U+DF35", "U+DF36", "U+DF37", "U+DF38", "U+DF39",
         "U+DF3A", "U+DF3B", "U+DF3C", "U+DF3D", "U+DF3E", "U+DF3F", "U+DF40", "U+DF41",
         "U+DF42", "U+DF43", "U+DF44", "U+DF45", "U+DF46"})
    \cup Pairs("U+D834",
        {"U+DD67", "U+DD68", "U+DD69", "U+DD73", "U+DD74", "U+DD75", "U+DD76", "U+DD77",
         "U+DD78", "U+DD79", "U+DD7A", "U+DD7B", "U+DD7C", "U+DD7D", "U+DD7E", "U+DD7F",
         "U+DD80", "U+DD81", "U+DD82", "U+DD85", "U+DD86", "U+DD87", "U+DD88", "U+DD89",
         "U+DD8A", "U+DD8B", "U+DDAA", "U+DDAB", "U+DDAC", "U+DDAD", "U+DE42", "U+DE43",
         "U+DE44"})
    \cup Pairs("U+D836",
        {"U+DE00", "U+DE01", "U+DE02", "U+DE03", "U+DE04", "U+DE05", "U+DE06", "U+DE07",
         "U+DE08", "U+DE09", "U+DE0A", "U+DE0B", "U+DE0C", "U+DE0D", "U+DE0E", "U+DE0F",
         "U+DE10", "U+DE11", "U+DE12", "U+DE13", "U+DE14", "U+DE15", "U+DE16", "U+DE17",
         "U+DE18", "U+DE19", "U+DE1A", "U+DE1B", "U+DE1C", "U+DE1D", "U+DE1E", "U+DE1F",
         "U+DE20", "U+DE21", "U+DE22", "U+DE23", "U+DE24", "U+DE25", "U+DE26", "U+DE27",
         "U+DE28", "U+DE29", "U+DE2A", "U+DE2B", "U+DE2C", "U+DE2D", "U+DE2E", "U+DE2F",
         "U+DE30", "U+DE31", "U+DE32", "U+DE33", "U+DE34", "U+DE35", "U+DE36", "U+DE3B",
         "U+DE3C", "U+DE3D", "U+DE3E", "U+DE3F", "U+DE40", "U+DE41", "U+DE42", "U+DE43",
         "U+DE44", "U+DE45", "U+DE46", "U+DE47", "U+DE48", "U+DE49", "U+DE4A", "U+DE4B",
         "U+DE4C", "U+DE4D", "U+DE4E", "U+DE4F", "U+DE50", "U+DE51", "U+DE52", "U+DE53",
         "U+DE54", "U+DE55", "U+DE56", "U+DE57", "U+DE58", "U+DE59", "U+DE5A", "U+DE5B",
         "U+DE5C", "U+DE5D", "U+DE5E", "U+DE5F", "U+DE60", "U+DE61", "U+DE62", "U+DE63",
         "U+DE64", "U+DE65", "U+DE66", "U+DE67", "U+DE68", "U+DE69", "U+DE6A", "U+DE6B",
         "U+DE6C", "U+DE75", "U+DE84", "U+DE9B", "U+DE9C", "U+DE9D", "U+DE9E", "U+DE9F",
         "U+DEA1", "U+DEA2", "U+DEA3", "U+DEA4", "U+DEA5", "U+DEA6", "U+DEA7", "U+DEA8",
         "U+DEA9", "U+DEAA", "U+DEAB", "U+DEAC", "U+DEAD", "U+DEAE", "U+DEAF"})
    \cup Pairs("U+D838",
        {"U+DC00", "U+DC01", "U+DC02", "U+DC03", "U+DC04", "U+DC05", "U+DC06", "U+DC08",
         "U+DC09", "U+DC0A", "U+DC0B", "U+DC0C", "U+DC0D", "U+DC0E", "U+DC0F", "U+DC10",
         "U+DC11", "U+DC12", "U+DC13", "U+DC14", "U+DC15", "U+DC16", "U+DC17", "U+DC18",
         "U+DC1B", "U+DC1C", "U+DC1D", "U+DC1E", "U+DC1F", "U+DC20", "U+DC21", "U+DC23",
         "U+DC24", "U+DC26", "U+DC27", "U+DC28", "U+DC29", "U+DC2A", "U+DC30", "U+DC31",
         "U+DC32", "U+DC33", "U+DC34", "U+DC35", "U+DC36", "U+DC37", "U+DC38", "U+DC39",
         "U+DC3A", "U+DC3B", "U+DC3C", "U+DC3D", "U+DC3E", "U+DC3F", "U+DC40", "U+DC41",
         "U+DC42", "U+DC43", "U+DC44", "U+DC45", "U+DC46", "U+DC47", "U+DC48", "U+DC49",
         "U+DC4A", "U+DC4B", "U+DC4C", "U+DC4D", "U+DC4E", "U+DC4F", "U+DC50", "U+DC51",
         "U+DC52", "U+DC53", "U+DC54", "U+DC55", "U+DC56", "U+DC57", "U+DC58", "U+DC59",
         "U+DC5A", "U+DC5B", "U+DC5C", "U+DC5D", "U+DC5E", "U+DC5F", "U+DC60", "U+DC61",
         "U+DC62", "U+DC63", "U+DC64", "U+DC65", "U+DC66", "U+DC67", "U+DC68", "U+DC69",
         "U+DC6A", "U+DC6B", "U+DC6C", "U+DC6D", "U+DC8F", "U+DD30", "U+DD31", "U+DD32",
         "U+DD33", "U+DD34", "U+DD35", "U+DD36", "U+DD37", "U+DD38", "U+DD39", "U+DD3A",
         "U+DD3B", "U+DD3C", "U+DD3D", "U+DEAE", "U+DEEC", "U+DEED", "U+DEEE", "U+DEEF"})
    \cup Pairs("U+D839",
        {"U+DCEB", "U+DCEC", "U+DCED", "U+DCEE", "U+DCEF", "U+DDEE", "U+DDEF", "U+DEE3",
         "U+DEE6", "U+DEEE", "U+DEEF", "U+DEF5", "U+DEFF"})
    \cup Pairs("U+D83A",
        {"U+DCD0", "U+DCD1", "U+DCD2", "U+DCD3", "U+DCD4", "U+DCD5", "U+DCD6", "U+DD44",
         "U+DD45", "U+DD46", "U+DD47", "U+DD48", "U+DD49", "U+DD4A", "U+DD4B"})
    \cup Pairs("U+D83C",
        {"U+DFFB", "U+DFFC", "U+DFFD", "U+DFFE", "U+DFFF"})
    \cup Pairs("U+DB40",
        {"U+DC01", "U+DC20", "U+DC21", "U+DC22", "U+DC23", "U+DC24", "U+DC25", "U+DC26",
         "U+DC27", "U+DC28", "U+DC29", "U+DC2A", "U+DC2B", "U+DC2C", "U+DC2D", "U+DC2E",
         "U+DC2F", "U+DC30", "U+DC31", "U+DC32", "U+DC33", "U+DC34", "U+DC35", "U+DC36",
         "U+DC37", "U+DC38", "U+DC39", "U+DC3A", "U+DC3B", "U+DC3C", "U+DC3D", "U+DC3E",
         "U+DC3F", "U+DC40", "U+DC41", "U+DC42", "U+DC43", "U+DC44", "U+DC45", "U+DC46",
         "U+DC47", "U+DC48", "U+DC49", "U+DC4A", "U+DC4B", "U+DC4C", "U+DC4D", "U+DC4E",
         "U+DC4F", "U+DC50", "U+DC51", "U+DC52", "U+DC53", "U+DC54", "U+DC55", "U+DC56",
         "U+DC57", "U+DC58", "U+DC59", "U+DC5A", "U+DC5B", "U+DC5C", "U+DC5D", "U+DC5E",
         "U+DC5F", "U+DC60", "U+DC61", "U+DC62", "U+DC63", "U+DC64", "U+DC65", "U+DC66",
         "U+DC67", "U+DC68", "U+DC69", "U+DC6A", "U+DC6B", "U+DC6C", "U+DC6D", "U+DC6E",
         "U+DC6F", "U+DC70", "U+DC71", "U+DC72", "U+DC73", "U+DC74", "U+DC75", "U+DC76",
         "U+DC77", "U+DC78", "U+DC79", "U+DC7A", "U+DC7B", "U+DC7C", "U+DC7D", "U+DC7E",
         "U+DC7F", "U+DD00", "U+DD01", "U+DD02", "U+DD03", "U+DD04", "U+DD05", "U+DD06",
         "U+DD07", "U+DD08", "U+DD09", "U+DD0A", "U+DD0B", "U+DD0C", "U+DD0D", "U+DD0E",
         "U+DD0F", "U+DD10", "U+DD11", "U+DD12", "U+DD13", "U+DD14", "U+DD15", "U+DD16",
         "U+DD17", "U+DD18", "U+DD19", "U+DD1A", "U+DD1B", "U+DD1C", "U+DD1D", "U+DD1E",
         "U+DD1F", "U+DD20", "U+DD21", "U+DD22", "U+DD23", "U+DD24", "U+DD25", "U+DD26",
         "U+DD27", "U+DD28", "U+DD29", "U+DD2A", "U+DD2B", "U+DD2C", "U+DD2D", "U+DD2E",
         "U+DD2F", "U+DD30", "U+DD31", "U+DD32", "U+DD33", "U+DD34", "U+DD35", "U+DD36",
         "U+DD37", "U+DD38", "U+DD39", "U+DD3A", "U+DD3B", "U+DD3C", "U+DD3D", "U+DD3E",
         "U+DD3F", "U+DD40", "U+DD41", "U+DD42", "U+DD43", "U+DD44", "U+DD45", "U+DD46",
         "U+DD47", "U+DD48", "U+DD49", "U+DD4A", "U+DD4B", "U+DD4C", "U+DD4D", "U+DD4E",
         "U+DD4F", "U+DD50", "U+DD51", "U+DD52", "U+DD53", "U+DD54", "U+DD55", "U+DD56",
         "U+DD57", "U+DD58", "U+DD59", "U+DD5A", "U+DD5B", "U+DD5C", "U+DD5D", "U+DD5E",
         "U+DD5F", "U+DD60", "U+DD61", "U+DD62", "U+DD63", "U+DD64", "U+DD65", "U+DD66",
         "U+DD67", "U+DD68", "U+DD69", "U+DD6A", "U+DD6B", "U+DD6C", "U+DD6D", "U+DD6E",
         "U+DD6F", "U+DD70", "U+DD71", "U+DD72", "U+DD73", "U+DD74", "U+DD75", "U+DD76",
         "U+DD77", "U+DD78", "U+DD79", "U+DD7A", "U+DD7B", "U+DD7C", "U+DD7D", "U+DD7E",
         "U+DD7F", "U+DD80", "U+DD81", "U+DD82", "U+DD83", "U+DD84", "U+DD85", "U+DD86",
         "U+DD87", "U+DD88", "U+DD89", "U+DD8A", "U+DD8B", "U+DD8C", "U+DD8D", "U+DD8E",
         "U+DD8F", "U+DD90", "U+DD91", "U+DD92", "U+DD93", "U+DD94", "U+DD95", "U+DD96",
         "U+DD97", "U+DD98", "U+DD99", "U+DD9A", "U+DD9B", "U+DD9C", "U+DD9D", "U+DD9E",
         "U+DD9F", "U+DDA0", "U+DDA1", "U+DDA2", "U+DDA3", "U+DDA4", "U+DDA5", "U+DDA6",
         "U+DDA7", "U+DDA8", "U+DDA9", "U+DDAA", "U+DDAB", "U+DDAC", "U+DDAD", "U+DDAE",
         "U+DDAF", "U+DDB0", "U+DDB1", "U+DDB2", "U+DDB3", "U+DDB4", "U+DDB5", "U+DDB6",
         "U+DDB7", "U+DDB8", "U+DDB9", "U+DDBA", "U+DDBB", "U+DDBC", "U+DDBD", "U+DDBE",
         "U+DDBF", "U+DDC0", "U+DDC1", "U+DDC2", "U+DDC3", "U+DDC4", "U+DDC5", "U+DDC6",
         "U+DDC7", "U+DDC8", "U+DDC9", "U+DDCA", "U+DDCB", "U+DDCC", "U+DDCD", "U+DDCE",
         "U+DDCF", "U+DDD0", "U+DDD1", "U+DDD2", "U+DDD3", "U+DDD4", "U+DDD5", "U+DDD6",
         "U+DDD7", "U+DDD8", "U+DDD9", "U+DDDA", "U+DDDB", "U+DDDC", "U+DDDD", "U+DDDE",
         "U+DDDF", "U+DDE0", "U+DDE1", "U+DDE2", "U+DDE3", "U+DDE4", "U+DDE5", "U+DDE6",
         "U+DDE7", "U+DDE8", "U+DDE9", "U+DDEA", "U+DDEB", "U+DDEC", "U+DDED", "U+DDEE",
         "U+DDEF"})

AstralCased ==
    Pairs("U+D801",
        {"U+DC00", "U+DC01", "U+DC02", "U+DC03", "U+DC04", "U+DC05", "U+DC06", "U+DC07",
         "U+DC08", "U+DC09", "U+DC0A", "U+DC0B", "U+DC0C", "U+DC0D", "U+DC0E", "U+DC0F",
         "U+DC10", "U+DC11", "U+DC12", "U+DC13", "U+DC14", "U+DC15", "U+DC16", "U+DC17",
         "U+DC18", "U+DC19", "U+DC1A", "U+DC1B", "U+DC1C", "U+DC1D", "U+DC1E", "U+DC1F",
         "U+DC20", "U+DC21", "U+DC22", "U+DC23", "U+DC24", "U+DC25", "U+DC26", "U+DC27",
         "U+DC28", "U+DC29", "U+DC2A", "U+DC2B", "U+DC2C", "U+DC2D", "U+DC2E", "U+DC2F",
         "U+DC30", "U+DC31", "U+DC32", "U+DC33", "U+DC34", "U+DC35", "U+DC36", "U+DC37",
         "U+DC38", "U+DC39", "U+DC3A", "U+DC3B", "U+DC3C", "U+DC3D", "U+DC3E", "U+DC3F",
         "U+DC40", "U+DC41", "U+DC42", "U+DC43", "U+DC44", "U+DC45", "U+DC46", "U+DC47",
         "U+DC48", "U+DC49", "U+DC4A", "U+DC4B", "U+DC4C", "U+DC4D", "U+DC4E", "U+DC4F",
         "U+DCB0", "U+DCB1", "U+DCB2", "U+DCB3", "U+DCB4", "U+DCB5", "U+DCB6", "U+DCB7",
         "U+DCB8", "U+DCB9", "U+DCBA", "U+DCBB", "U+DCBC", "U+DCBD", "U+DCBE", "U+DCBF",
         "U+DCC0", "U+DCC1", "U+DCC2", "U+DCC3", "U+DCC4", "U+DCC5", "U+DCC6", "U+DCC7",
         "U+DCC8", "U+DCC9", "U+DCCA", "U+DCCB", "U+DCCC", "U+DCCD", "U+DCCE", "U+DCCF",
         "U+DCD0", "U+DCD1", "U+DCD2", "U+DCD3", "U+DCD8", "U+DCD9", "U+DCDA", "U+DCDB",
         "U+DCDC", "U+DCDD", "U+DCDE", "U+DCDF", "U+DCE0", "U+DCE1", "U+DCE2", "U+DCE3",
         "U+DCE4", "U+DCE5", "U+DCE6", "U+DCE7", "U+DCE8", "U+DCE9", "U+DCEA", "U+DCEB",
         "U+DCEC", "U+DCED", "U+DCEE", "U+DCEF", "U+DCF0", "U+DCF1", "U+DCF2", "U+DCF3",
         "U+DCF4", "U+DCF5", "U+DCF6", "U+DCF7", "U+DCF8", "U+DCF9", "U+DCFA", "U+DCFB",
         "U+DD70", "U+DD71", "U+DD72", "U+DD73", "U+DD74", "U+DD75", "U+DD76", "U+DD77",
         "U+DD78", "U+DD79", "U+DD7A", "U+DD7C", "U+DD7D", "U+DD7E", "U+DD7F", "U+DD80",
         "U+DD81", "U+DD82", "U+DD83", "U+DD84", "U+DD85", "U+DD86", "U+DD87", "U+DD88",
         "U+DD89", "U+DD8A", "U+DD8C", "U+DD8D", "U+DD8E", "U+DD8F", "U+DD90", "U+DD91",
         "U+DD92", "U+DD94", "U+DD95", "U+DD97", "U+DD98", "U+DD99", "U+DD9A", "U+DD9B",
         "U+DD9C", "U+DD9D", "U+DD9E", "U+DD9F", "U+DDA0", "U+DDA1", "U+DDA3", "U+DDA4",
         "U+DDA5", "U+DDA6", "U+DDA7", "U+DDA8", "U+DDA9", "U+DDAA", "U+DDAB", "U+DDAC",
         "U+DDAD", "U+DDAE", "U+DDAF", "U+DDB0", "U+DDB1", "U+DDB3", "U+DDB4", "U+DDB5",
         "U+DDB6", "U+DDB7", "U+DDB8", "U+DDB9", "U+DDBB", "U+DDBC"})
    \cup Pairs("U+D803",
        {"U+DC80", "U+DC81", "U+DC82", "U+DC83", "U+DC84", "U+DC85", "U+DC86", "U+DC87",
         "U+DC88", "U+DC89", "U+DC8A", "U+DC8B", "U+DC8C", "U+DC8D", "U+DC8E", "U+DC8F",
         "U+DC90", "U+DC91", "U+DC92", "U+DC93", "U+DC94", "U+DC95", "U+DC96", "U+DC97",
         "U+DC98", "U+DC99", "U+DC9A", "U+DC9B", "U+DC9C", "U+DC9D", "U+DC9E", "U+DC9F",
         "U+DCA0", "U+DCA1", "U+DCA2", "U+DCA3", "U+DCA4", "U+DCA5", "U+DCA6", "U+DCA7",
         "U+DCA8", "U+DCA9", "U+DCAA", "U+DCAB", "U+DCAC", "U+DCAD", "U+DCAE", "U+DCAF",
         "U+DCB0", "U+DCB1", "U+DCB2", "U+DCC0", "U+DCC1", "U+DCC2", "U+DCC3", "U+DCC4",
         "U+DCC5", "U+DCC6", "U+DCC7", "U+DCC8", "U+DCC9", "U+DCCA", "U+DCCB", "U+DCCC",
         "U+DCCD", "U+DCCE", "U+DCCF", "U+DCD0", "U+DCD1", "U+DCD2", "U+DCD3", "U+DCD4",
         "U+DCD5", "U+DCD6", "U+DCD7", "U+DCD8", "U+DCD9", "U+DCDA", "U+DCDB", "U+DCDC",
         "U+DCDD", "U+DCDE", "U+DCDF", "U+DCE0", "U+DCE1", "U+DCE2", "U+DCE3", "U+DCE4",
         "U+DCE5", "U+DCE6", "U+DCE7", "U+DCE8", "U+DCE9", "U+DCEA", "U+DCEB", "U+DCEC",
         "U+DCED", "U+DCEE", "U+DCEF", "U+DCF0", "U+DCF1", "U+DCF2", "U+DD50", "U+DD51",
         "U+DD52", "U+DD53", "U+DD54", "U+DD55", "U+DD56", "U+DD57", "U+DD58", "U+DD59",
         "U+DD5A", "U+DD5B", "U+DD5C", "U+DD5D", "U+DD5E", "U+DD5F", "U+DD60", "U+DD61",
         "U+DD62", "U+DD63", "U+DD64", "U+DD65", "U+DD70", "U+DD71", "U+DD72", "U+DD73",
         "U+DD74", "U+DD75", "U+DD76", "U+DD77", "U+DD78", "U+DD79", "U+DD7A", "U+DD7B",
         "U+DD7C", "U+DD7D", "U+DD7E", "U+DD7F", "U+DD80", "U+DD81", "U+DD82", "U+DD83",
         "U+DD84", "U+DD85"})
    \cup Pairs("U+D806",
        {"U+DCA0", "U+DCA1", "U+DCA2", "U+DCA3", "U+DCA4", "U+DCA5", "U+DCA6", "U+DCA7",
         "U+DCA8", "U+DCA9", "U+DCAA", "U+DCAB", "U+DCAC", "U+DCAD", "U+DCAE", "U+DCAF",
         "U+DCB0", "U+DCB1", "U+DCB2", "U+DCB3", "U+DCB4", "U+DCB5", "U+DCB6", "U+DCB7",
         "U+DCB8", "U+DCB9", "U+DCBA", "U+DCBB", "U+DCBC", "U+DCBD", "U+DCBE", "U+DCBF",
         "U+DCC0", "U+DCC1", "U+DCC2", "U+DCC3", "U+DCC4", "U+DCC5", "U+DCC6", "U+DCC7",
         "U+DCC8", "U+DCC9", "U+DCCA", "U+DCCB", "U+DCCC", "U+DCCD", "U+DCCE", "U+DCCF",
         "U+DCD0", "U+DCD1", "U+DCD2", "U+DCD3", "U+DCD4", "U+DCD5", "U+DCD6", "U+DCD7",
         "U+DCD8", "U+DCD9", "U+DCDA", "U+DCDB", "U+DCDC", "U+DCDD", "U+DCDE", "U+DCDF"})
    \cup Pairs("U+D81B",
        {"U+DE40", "U+DE41", "U+DE42", "U+DE43", "U+DE44", "U+DE45", "U+DE46", "U+DE47",
         "U+DE48", "U+DE49", "U+DE4A", "U+DE4B", "U+DE4C", "U+DE4D", "U+DE4E", "U+DE4F",
         "U+DE50", "U+DE51", "U+DE52", "U+DE53", "U+DE54", "U+DE55", "U+DE56", "U+DE57",
         "U+DE58", "U+DE59", "U+DE5A", "U+DE5B", "U+DE5C", "U+DE5D", "U+DE5E", "U+DE5F",
         "U+DE60", "U+DE61", "U+DE62", "U+DE63", "U+DE64", "U+DE65", "U+DE66", "U+DE67",
         "U+DE68", "U+DE69", "U+DE6A", "U+DE6B", "U+DE6C", "U+DE6D", "U+DE6E", "U+DE6F",
         "U+DE70", "U+DE71", "U+DE72", "U+DE73", "U+DE74", "U+DE75", "U+DE76", "U+DE77",
         "U+DE78", "U+DE79", "U+DE7A", "U+DE7B", "U+DE7C", "U+DE7D", "U+DE7E", "U+DE7F",
         "U+DEA0", "U+DEA1", "U+DEA2", "U+DEA3", "U+DEA4", "U+DEA5", "U+DEA6", "U+DEA7",
         "U+DEA8", "U+DEA9", "U+DEAA", "U+DEAB", "U+DEAC", "U+DEAD", "U+DEAE", "U+DEAF",
         "U+DEB0", "U+DEB1", "U+DEB2", "U+DEB3", "U+DEB4", "U+DEB5", "U+DEB6", "U+DEB7",
         "U+DEB8", "U+DEBB", "U+DEBC", "U+DEBD", "U+DEBE", "U+DEBF", "U+DEC0", "U+DEC1",
         "U+DEC2", "U+DEC3", "U+DEC4", "U+DEC5", "U+DEC6", "U+DEC7", "U+DEC8", "U+DEC9",
         "U+DECA", "U+DECB", "U+DECC", "U+DECD", "U+DECE", "U+DECF", "U+DED0", "U+DED1",
         "U+DED2", "U+DED3"})
    \cup Pairs("U+D835",
        {"U+DC00", "U+DC01", "U+DC02", "U+DC03", "U+DC04", "U+DC05", "U+DC06", "U+DC07",
         "U+DC08", "U+DC09", "U+DC0A", "U+DC0B", "U+DC0C", "U+DC0D", "U+DC0E", "U+DC0F",
         "U+DC10", "U+DC11", "U+DC12", "U+DC13", "U+DC14", "U+DC15", "U+DC16", "U+DC17",
         "U+DC18", "U+DC19", "U+DC1A", "U+DC1B", "U+DC1C", "U+DC1D", "U+DC1E", "U+DC1F",
         "U+DC20", "U+DC21", "U+DC22", "U+DC23", "U+DC24", "U+DC25", "U+DC26", "U+DC27",
         "U+DC28", "U+DC29", "U+DC2A", "U+DC2B", "U+DC2C", "U+DC2D", "U+DC2E", "U+DC2F",
         "U+DC30", "U+DC31", "U+DC32", "U+DC33", "U+DC34", "U+DC35", "U+DC36", "U+DC37",
         "U+DC38", "U+DC39", "U+DC3A", "U+DC3B", "U+DC3C", "U+DC3D", "U+DC3E", "U+DC3F",
         "U+DC40", "U+DC41", "U+DC42", "U+DC43", "U+DC44", "U+DC45", "U+DC46", "U+DC47",
         "U+DC48", "U+DC49", "U+DC4A", "U+DC4B", "U+DC4C", "U+DC4D", "U+DC4E", "U+DC4F",
         "U+DC50", "U+DC51", "U+DC52", "U+DC53", "U+DC54", "U+DC56", "U+DC57", "U+DC58",
         "U+DC59", "U+DC5A", "U+DC5B", "U+DC5C", "U+DC5D", "U+DC5E", "U+DC5F", "U+DC60",
         "U+DC61", "U+DC62", "U+DC63", "U+DC64", "U+DC65", "U+DC66", "U+DC67", "U+DC68",
         "U+DC69", "U+DC6A", "U+DC6B", "U+DC6C", "U+DC6D", "U+DC6E", "U+DC6F", "U+DC70",
         "U+DC71", "U+DC72", "U+DC73", "U+DC74", "U+DC75", "U+DC76", "U+DC77", "U+DC78",
         "U+DC79", "U+DC7A", "U+DC7B", "U+DC7C", "U+DC7D", "U+DC7E", "U+DC7F", "U+DC80",
         "U+DC81", "U+DC82", "U+DC83", "U+DC84", "U+DC85", "U+DC86", "U+DC87", "U+DC88",
         "U+DC89", "U+DC8A", "U+DC8B", "U+DC8C", "U+DC8D", "U+DC8E", "U+DC8F", "U+DC90",
         "U+DC91", "U+DC92", "U+DC93", "U+DC94", "U+DC95", "U+DC96", "U+DC97", "U+DC98",
         "U+DC99", "U+DC9A", "U+DC9B", "U+DC9C", "U+DC9E", "U+DC9F", "U+DCA2", "U+DCA5",
         "U+DCA6", "U+DCA9", "U+DCAA", "U+DCAB", "U+DCAC", "U+DCAE", "U+DCAF", "U+DCB0",
         "U+DCB1", "U+DCB2", "U+DCB3", "U+DCB4", "U+DCB5", "U+DCB6", "U+DCB7", "U+DCB8",
         "U+DCB9", "U+DCBB", "U+DCBD", "U+DCBE", "U+DCBF", "U+DCC0", "U+DCC1", "U+DCC2",
         "U+DCC3", "U+DCC5", "U+DCC6", "U+DCC7", "U+DCC8", "U+DCC9", "U+DCCA", "U+DCCB",
         "U+DCCC", "U+DCCD", "U+DCCE", "U+DCCF", "U+DCD0", "U+DCD1", "U+DCD2", "U+DCD3",
         "U+DCD4", "U+DCD5", "U+DCD6", "U+DCD7", "U+DCD8", "U+DCD9", "U+DCDA", "U+DCDB",
         "U+DCDC", "U+DCDD", "U+DCDE", "U+DCDF", "U+DCE0", "U+DCE1", "U+DCE2", "U+DCE3",
         "U+DCE4", "U+DCE5", "U+DCE6", "U+DCE7", "U+DCE8", "U+DCE9", "U+DCEA", "U+DCEB",
         "U+DCEC", "U+DCED", "U+DCEE", "U+DCEF", "U+DCF0", "U+DCF1", "U+DCF2", "U+DCF3",
         "U+DCF4", "U+DCF5", "U+DCF6", "U+DCF7", "U+DCF8", "U+DCF9", "U+DCFA", "U+DCFB",
         "U+DCFC", "U+DCFD", "U+DCFE", "U+DCFF", "U+DD00", "U+DD01", "U+DD02", "U+DD03",
         "U+DD04", "U+DD05", "U+DD07", "U+DD08", "U+DD09", "U+DD0A", "U+DD0D", "U+DD0E",
         "U+DD0F", "U+DD10", "U+DD11", "U+DD12", "U+DD13", "U+DD14", "U+DD16", "U+DD17",
         "U+DD18", "U+DD19", "U+DD1A", "U+DD1B", "U+DD1C", "U+DD1E", "U+DD1F", "U+DD20",
         "U+DD21", "U+DD22", "U+DD23", "U+DD24", "U+DD25", "U+DD26", "U+DD27", "U+DD28",
         "U+DD29", "U+DD2A", "U+DD2B", "U+DD2C", "U+DD2D", "U+DD2E", "U+DD2F", "U+DD30",
         "U+DD31", "U+DD32", "U+DD33", "U+DD34", "U+DD35", "U+DD36", "U+DD37", "U+DD38",
         "U+DD39", "U+DD3B", "U+DD3C", "U+DD3D", "U+DD3E", "U+DD40", "U+DD41", "U+DD42",
         "U+DD43", "U+DD44", "U+DD46", "U+DD4A", "U+DD4B", "U+DD4C", "U+DD4D", "U+DD4E",
         "U+DD4F", "U+DD50", "U+DD52", "U+DD53", "U+DD54", "U+DD55", "U+DD56", "U+DD57",
         "U+DD58", "U+DD59", "U+DD5A", "U+DD5B", "U+DD5C", "U+DD5D", "U+DD5E", "U+DD5F",
         "U+DD60", "U+DD61", "U+DD62", "U+DD63", "U+DD64", "U+DD65", "U+DD66", "U+DD67",
         "U+DD68", "U+DD69", "U+DD6A", "U+DD6B", "U+DD6C", "U+DD6D", "U+DD6E", "U+DD6F",
         "U+DD70", "U+DD71", "U+DD72", "U+DD73", "U+DD74", "U+DD75", "U+DD76", "U+DD77",
         "U+DD78", "U+DD79", "U+DD7A", "U+DD7B", "U+DD7C", "U+DD7D", "U+DD7E", "U+DD7F",
         "U+DD80", "U+DD81", "U+DD82", "U+DD83", "U+DD84", "U+DD85", "U+DD86", "U+DD87",
         "U+DD88", "U+DD89", "U+DD8A", "U+DD8B", "U+DD8C", "U+DD8D", "U+DD8E", "U+DD8F",
         "U+DD90", "U+DD91", "U+DD92", "U+DD93", "U+DD94", "U+DD95", "U+DD96", "U+DD97",
         "U+DD98", "U+DD99", "U+DD9A", "U+DD9B", "U+DD9C", "U+DD9D", "U+DD9E", "U+DD9F",
         "U+DDA0", "U+DDA1", "U+DDA2", "U+DDA3", "U+DDA4", "U+DDA5", "U+DDA6", "U+DDA7",
         "U+DDA8", "U+DDA9", "U+DDAA", "U+DDAB", "U+DDAC", "U+DDAD", "U+DDAE", "U+DDAF",
         "U+DDB0", "U+DDB1", "U+DDB2", "U+DDB3", "U+DDB4", "U+DDB5", "U+DDB6", "U+DDB7",
         "U+DDB8", "U+DDB9", "U+DDBA", "U+DDBB", "U+DDBC", "U+DDBD", "U+DDBE", "U+DDBF",
         "U+DDC0", "U+DDC1", "U+DDC2", "U+DDC3", "U+DDC4", "U+DDC5", "U+DDC6", "U+DDC7",
         "U+DDC8", "U+DDC9", "U+DDCA", "U+DDCB", "U+DDCC", "U+DDCD", "U+DDCE", "U+DDCF",
         "U+DDD0", "U+DDD1", "U+DDD2", "U+DDD3", "U+DDD4", "U+DDD5", "U+DDD6", "U+DDD7",
         "U+DDD8", "U+DDD9", "U+DDDA", "U+DDDB", "U+DDDC", "U+DDDD", "U+DDDE", "U+DDDF",
         "U+DDE0", "U+DDE1", "U+DDE2", "U+DDE3", "U+DDE4", "U+DDE5", "U+DDE6", "U+DDE7",
         "U+DDE8", "U+DDE9", "U+DDEA", "U+DDEB", "U+DDEC", "U+DDED", "U+DDEE", "U+DDEF",
         "U+DDF0", "U+DDF1", "U+DDF2", "U+DDF3", "U+DDF4", "U+DDF5", "U+DDF6", "U+DDF7",
         "U+DDF8", "U+DDF9", "U+DDFA", "U+DDFB", "U+DDFC", "U+DDFD", "U+DDFE", "U+DDFF",
         "U+DE00", "U+DE01", "U+DE02", "U+DE03", "U+DE04", "U+DE05", "U+DE06", "U+DE07",
         "U+DE08", "U+DE09", "U+DE0A", "U+DE0B", "U+DE0C", "U+DE0D", "U+DE0E", "U+DE0F",
         "U+DE10", "U+DE11", "U+DE12", "U+DE13", "U+DE14", "U+DE15", "U+DE16", "U+DE17",
         "U+DE18", "U+DE19", "U+DE1A", "U+DE1B", "U+DE1C", "U+DE1D", "U+DE1E", "U+DE1F",
         "U+DE20", "U+DE21", "U+DE22", "U+DE23", "U+DE24", "U+DE25", "U+DE26", "U+DE27",
         "U+DE28", "U+DE29", "U+DE2A", "U+DE2B", "U+DE2C", "U+DE2D", "U+DE2E", "U+DE2F",
         "U+DE30", "U+DE31", "U+DE32", "U+DE33", "U+DE34", "U+DE35", "U+DE36", "U+DE37",
         "U+DE38", "U+DE39", "U+DE3A", "U+DE3B", "U+DE3C", "U+DE3D", "U+DE3E", "U+DE3F",
         "U+DE40", "U+DE41", "U+DE42", "U+DE43", "U+DE44", "U+DE45", "U+DE46", "U+DE47",
         "U+DE48", "U+DE49", "U+DE4A", "U+DE4B", "U+DE4C", "U+DE4D", "U+DE4E", "U+DE4F",
         "U+DE50", "U+DE51", "U+DE52", "U+DE53", "U+DE54", "U+DE55", "U+DE56", "U+DE57",
         "U+DE58", "U+DE59", "U+DE5A", "U+DE5B", "U+DE5C", "U+DE5D", "U+DE5E", "U+DE5F",
         "U+DE60", "U+DE61", "U+DE62", "U+DE63", "U+DE64", "U+DE65", "U+DE66", "U+DE67",
         "U+DE68", "U+DE69", "U+DE6A", "U+DE6B", "U+DE6C", "U+DE6D", "U+DE6E", "U+DE6F",
         "U+DE70", "U+DE71", "U+DE72", "U+DE73", "U+DE74", "U+DE75", "U+DE76", "U+DE77",
         "U+DE78", "U+DE79", "U+DE7A", "U+DE7B", "U+DE7C", "U+DE7D", "U+DE7E", "U+DE7F",
         "U+DE80", "U+DE81", "U+DE82", "U+DE83", "U+DE84", "U+DE85", "U+DE86", "U+DE87",
         "U+DE88", "U+DE89", "U+DE8A", "U+DE8B", "U+DE8C", "U+DE8D", "U+DE8E", "U+DE8F",
         "U+DE90", "U+DE91", "U+DE92", "U+DE93", "U+DE94", "U+DE95", "U+DE96", "U+DE97",
         "U+DE98", "U+DE99", "U+DE9A", "U+DE9B", "U+DE9C", "U+DE9D", "U+DE9E", "U+DE9F",
         "U+DEA0", "U+DEA1", "U+DEA2", "U+DEA3", "U+DEA4", "U+DEA5", "U+DEA8", "U+DEA9",
         "U+DEAA", "U+DEAB", "U+DEAC", "U+DEAD", "U+DEAE", "U+DEAF", "U+DEB0", "U+DEB1",
         "U+DEB2", "U+DEB3", "U+DEB4", "U+DEB5", "U+DEB6", "U+DEB7", "U+DEB8", "U+DEB9",
         "U+DEBA", "U+DEBB", "U+DEBC", "U+DEBD", "U+DEBE", "U+DEBF", "U+DEC0", "U+DEC2",
         "U+DEC3", "U+DEC4", "U+DEC5", "U+DEC6", "U+DEC7", "U+DEC8", "U+DEC9", "U+DECA",
         "U+DECB", "U+DECC", "U+DECD", "U+DECE", "U+DECF", "U+DED0", "U+DED1", "U+DED2",
         "U+DED3", "U+DED4", "U+DED5", "U+DED6", "U+DED7", "U+DED8", "U+DED9", "U+DEDA",
         "U+DEDC", "U+DEDD", "U+DEDE", "U+DEDF", "U+DEE0", "U+DEE1", "U+DEE2", "U+DEE3",
         "U+DEE4", "U+DEE5", "U+DEE6", "U+DEE7", "U+DEE8", "U+DEE9", "U+DEEA", "U+DEEB",
         "U+DEEC", "U+DEED", "U+DEEE", "U+DEEF", "U+DEF0", "U+DEF1", "U+DEF2", "U+DEF3",
         "U+DEF4", "U+DEF5", "U+DEF6", "U+DEF7", "U+DEF8", "U+DEF9", "U+DEFA", "U+DEFC",
         "U+DEFD", "U+DEFE", "U+DEFF", "U+DF00", "U+DF01", "U+DF02", "U+DF03", "U+DF04",
         "U+DF05", "U+DF06", "U+DF07", "U+DF08", "U+DF09", "U+DF0A", "U+DF0B", "U+DF0C",
         "U+DF0D", "U+DF0E", "U+DF0F", "U+DF10", "U+DF11", "U+DF12", "U+DF13", "U+DF14",
         "U+DF16", "U+DF17", "U+DF18", "U+DF19", "U+DF1A", "U+DF1B", "U+DF1C", "U+DF1D",
         "U+DF1E", "U+DF1F", "U+DF20", "U+DF21", "U+DF22", "U+DF23", "U+DF24", "U+DF25",
         "U+DF26", "U+DF27", "U+DF28", "U+DF29", "U+DF2A", "U+DF2B", "U+DF2C", "U+DF2D",
         "U+DF2E", "U+DF2F", "U+DF30", "U+DF31", "U+DF32", "U+DF33", "U+DF34", "U+DF36",
         "U+DF37", "U+DF38", "U+DF39", "U+DF3A", "U+DF3B", "U+DF3C", "U+DF3D", "U+DF3E",
         "U+DF3F", "U+DF40", "U+DF41", "U+DF42", "U+DF43", "U+DF44", "U+DF45", "U+DF46",
         "U+DF47", "U+DF48", "U+DF49", "U+DF4A", "U+DF4B", "U+DF4C", "U+DF4D", "U+DF4E",
         "U+DF50", "U+DF51", "U+DF52", "U+DF53", "U+DF54", "U+DF55", "U+DF56", "U+DF57",
         "U+DF58", "U+DF59", "U+DF5A", "U+DF5B", "U+DF5C", "U+DF5D", "U+DF5E", "U+DF5F",
         "U+DF60", "U+DF61", "U+DF62", "U+DF63", "U+DF64", "U+DF65", "U+DF66", "U+DF67",
         "U+DF68", "U+DF69", "U+DF6A", "U+DF6B", "U+DF6C", "U+DF6D", "U+DF6E", "U+DF70",
         "U+DF71", "U+DF72", "U+DF73", "U+DF74", "U+DF75", "U+DF76", "U+DF77", "U+DF78",
         "U+DF79", "U+DF7A", "U+DF7B", "U+DF7C", "U+DF7D", "U+DF7E", "U+DF7F", "U+DF80",
         "U+DF81", "U+DF82", "U+DF83", "U+DF84", "U+DF85", "U+DF86", "U+DF87", "U+DF88",
         "U+DF8A", "U+DF8B", "U+DF8C", "U+DF8D", "U+DF8E", "U+DF8F", "U+DF90", "U+DF91",
         "U+DF92", "U+DF93", "U+DF94", "U+DF95", "U+DF96", "U+DF97", "U+DF98", "U+DF99",
         "U+DF9A", "U+DF9B", "U+DF9C", "U+DF9D", "U+DF9E", "U+DF9F", "U+DFA0", "U+DFA1",
         "U+DFA2", "U+DFA3", "U+DFA4", "U+DFA5", "U+DFA6", "U+DFA7", "U+DFA8", "U+DFAA",
         "U+DFAB", "U+DFAC", "U+DFAD", "U+DFAE", "U+DFAF", "U+DFB0", "U+DFB1", "U+DFB2",
         "U+DFB3", "U+DFB4", "U+DFB5", "U+DFB6", "U+DFB7", "U+DFB8", "U+DFB9", "U+DFBA",
         "U+DFBB", "U+DFBC", "U+DFBD", "U+DFBE", "U+DFBF", "U+DFC0", "U+DFC1", "U+DFC2",
         "U+DFC4", "U+DFC5", "U+DFC6", "U+DFC7", "U+DFC8", "U+DFC9", "U+DFCA", "U+DFCB"})
    \cup Pairs("U+D837",
        {"U+DF00", "U+DF01", "U+DF02", "U+DF03", "U+DF04", "U+DF05", "U+DF06", "U+DF07",
         "U+DF08", "U+DF09", "U+DF0B", "U+DF0C", "U+DF0D", "U+DF0E", "U+DF0F", "U+DF10",
         "U+DF11", "U+DF12", "U+DF13", "U+DF14", "U+DF15", "U+DF16", "U+DF17", "U+DF18",
         "U+DF19", "U+DF1A", "U+DF1B", "U+DF1C", "U+DF1D", "U+DF1E", "U+DF25", "U+DF26",
         "U+DF27", "U+DF28", "U+DF29", "U+DF2A"})
    \cup Pairs("U+D83A",
        {"U+DD00", "U+DD01", "U+DD02", "U+DD03", "U+DD04", "U+DD05", "U+DD06", "U+DD07",
         "U+DD08", "U+DD09", "U+DD0A", "U+DD0B", "U+DD0C", "U+DD0D", "U+DD0E", "U+DD0F",
         "U+DD10", "U+DD11", "U+DD12", "U+DD13", "U+DD14", "U+DD15", "U+DD16", "U+DD17",
         "U+DD18", "U+DD19", "U+DD1A", "U+DD1B", "U+DD1C", "U+DD1D", "U+DD1E", "U+DD1F",
         "U+DD20", "U+DD21", "U+DD22", "U+DD23", "U+DD24", "U+DD25", "U+DD26", "U+DD27",
         "U+DD28", "U+DD29", "U+DD2A", "U+DD2B", "U+DD2C", "U+DD2D", "U+DD2E", "U+DD2F",
         "U+DD30", "U+DD31", "U+DD32", "U+DD33", "U+DD34", "U+DD35", "U+DD36", "U+DD37",
         "U+DD38", "U+DD39", "U+DD3A", "U+DD3B", "U+DD3C", "U+DD3D", "U+DD3E", "U+DD3F",
         "U+DD40", "U+DD41", "U+DD42", "U+DD43"})
    \cup Pairs("U+D83C",
        {"U+DD30", "U+DD31", "U+DD32", "U+DD33", "U+DD34", "U+DD35", "U+DD36", "U+DD37",
         "U+DD38", "U+DD39", "U+DD3A", "U+DD3B", "U+DD3C", "U+DD3D", "U+DD3E", "U+DD3F",
         "U+DD40", "U+DD41", "U+DD42", "U+DD43", "U+DD44", "U+DD45", "U+DD46", "U+DD47",
         "U+DD48", "U+DD49", "U+DD50", "U+DD51", "U+DD52", "U+DD53", "U+DD54", "U+DD55",
         "U+DD56", "U+DD57", "U+DD58", "U+DD59", "U+DD5A", "U+DD5B", "U+DD5C", "U+DD5D",
         "U+DD5E", "U+DD5F", "U+DD60", "U+DD61", "U+DD62", "U+DD63", "U+DD64", "U+DD65",
         "U+DD66", "U+DD67", "U+DD68", "U+DD69", "U+DD70", "U+DD71", "U+DD72", "U+DD73",
         "U+DD74", "U+DD75", "U+DD76", "U+DD77", "U+DD78", "U+DD79", "U+DD7A", "U+DD7B",
         "U+DD7C", "U+DD7D", "U+DD7E", "U+DD7F", "U+DD80", "U+DD81", "U+DD82", "U+DD83",
         "U+DD84", "U+DD85", "U+DD86", "U+DD87", "U+DD88", "U+DD89"})

\* what toLowerCase makes of one code unit that it changes and that is no part of
\* a surrogate pair, the context of a capital sigma left aside
LowerOf ==
    [c \in {UpperCase[j] : j \in DOMAIN UpperCase} \cup {"U+0130"} |->
        IF c = "U+0130" THEN <<"i", "U+0307">>
        ELSE <<LowerCase[CHOOSE j \in DOMAIN UpperCase : UpperCase[j] = c]>>]

\* the same for a surrogate pair
AstralLowerOf ==
    LET pairAt(t, j) == <<t[2 * j - 1], t[2 * j]>>
        places == 1..(Len(AstralUpperCase) \div 2)
    IN  [p \in {pairAt(AstralUpperCase, j) : j \in places} |->
            pairAt(AstralLowerCase,
                   CHOOSE j \in places : pairAt(AstralUpperCase, j) = p)]

\* the code units i and i + 1 of s are a surrogate pair, one character outside
\* the basic plane
IsPairAt(s, i) ==
    /\ i >= 1
    /\ i < Len(s)
    /\ s[i] \in HighSurrogates
    /\ s[i + 1] \in LowSurrogates

\* the pair the code unit i of s is part of, <<>> when it stands alone
PairOf(s, i) ==
    IF IsPairAt(s, i) THEN <<s[i], s[i + 1]>>
    ELSE IF IsPairAt(s, i - 1) THEN <<s[i - 1], s[i]>>
    ELSE <<>>

\* the case class of the character the code unit i of s belongs to
CaseClass(s, i) ==
    LET p == PairOf(s, i)
    IN  IF p # <<>>
        THEN (IF p \in AstralCaseIgnorable THEN "ignorable"
              ELSE IF p \in AstralCased THEN "cased" ELSE "none")
        ELSE IF s[i] \in CaseIgnorable THEN "ignorable"
        ELSE IF s[i] \in Cased THEN "cased"
        ELSE "none"

\* going back from place i, case-ignorable characters skipped, a cased letter comes
RECURSIVE CasedBefore(_, _)
CasedBefore(s, i) ==
    IF i < 1 THEN FALSE
    ELSE IF CaseClass(s, i) = "ignorable" THEN CasedBefore(s, i - 1)
    ELSE CaseClass(s, i) = "cased"

\* the same going forward from place i
RECURSIVE CasedAfter(_, _)
CasedAfter(s, i) ==
    IF i > Len(s) THEN FALSE
    ELSE IF CaseClass(s, i) = "ignorable" THEN CasedAfter(s, i + 1)
    ELSE CaseClass(s, i) = "cased"

\* the capital sigma at place i ends a word
FinalSigma(s, i) == CasedBefore(s, i - 1) /\ ~CasedAfter(s, i + 1)

\* what toLowerCase puts in the place of the code unit i of s
LowerAt(s, i) ==
    LET p == PairOf(s, i)
    IN  IF p # <<>>
        THEN (IF p \notin DOMAIN AstralLowerOf THEN <<s[i]>>
              ELSE IF IsPairAt(s, i) THEN <<AstralLowerOf[p][1]>>
              ELSE <<AstralLowerOf[p][2]>>)
        ELSE IF s[i] = "U+03A3"
             THEN (IF FinalSigma(s, i) THEN <<"U+03C2">> ELSE <<"U+03C3">>)
        ELSE IF s[i] \in DOMAIN LowerOf THEN LowerOf[s[i]]
        ELSE <<s[i]>>

toLowerCase(s) ==
    LET cat[n \in 0..Len(s)] == IF n = 0 THEN <<>> ELSE cat[n - 1] \o LowerAt(s, n)
    IN  cat[Len(s)]

\* String.prototype.slice(from, to) with 0 <= from <= to
slice(s, from, to) ==
    SubSeq(s, from + 1, IF to < Len(s) THEN to ELSE Len(s))

\* String.prototype.startsWith
startsWith(s, prefix) ==
    /\ Len(prefix) <= Len(s)
    /\ SubSeq(s, 1, Len(prefix)) = prefix

\* String.prototype.includes: RegExp.test of an alternation of literals is
\* a test of whether one of the literals is a substring
includes(s, word) ==
    \E i \in 1..(Len(s) - Len(word) + 1) : SubSeq(s, i, i + Len(word) - 1) = word

\* the white space and line terminators String.prototype.trim strips; a character
\* that cannot be written in a string here is named by its code point
WhiteSpace ==
    {" ", "\t", "\n", "\r", "\f", "U+000B", "U+00A0", "U+1680",
     "U+2000", "U+2001", "U+2002", "U+2003", "U+2004", "U+2005", "U+2006",
     "U+2007", "U+2008", "U+2009", "U+200A", "U+2028", "U+2029", "U+202F",
     "U+205F", "U+3000", "U+FEFF"}

\* String.prototype.trim
trim(s) ==
    LET keep == {i \in 1..Len(s) : s[i] \notin WhiteSpace}
    IN  IF keep = {} THEN EmptyString
        ELSE SubSeq(s, CHOOSE i \in keep : \A j \in keep : i <= j,
                       CHOOSE i \in keep : \A j \in keep : j <= i)

Digits == <<"0","1","2","3","4","5","6","7","8","9">>

\* `${n}` for a number n >= 0: its decimal digits
RECURSIVE toDecimal(_)
toDecimal(n) ==
    IF n < 10 THEN <<Digits[n + 1]>>
    ELSE toDecimal(n \div 10) \o <<Digits[(n % 10) + 1]>>

Untitled == <<"U","n","t","i","t","l","e","d">>
SummaryFor == <<"S","u","m","m","a","r","y"," ","f","o","r"," ">>
SessionPrefix == <<"S","e","s","s","i","o","n"," ">>
ChromeScheme == <<"c","h","r","o","m","e",":","/","/">>
NewTabUrl == <<"c","h","r","o","m","e",":","/","/","n","e","w","t","a","b","/">>

(***************************************************************************)
(* Values of external collaborators                                        *)
(***************************************************************************)
Throws == [kind |-> "throws"]
NullValue == [kind |-> "null"]
StringValue(s) == [kind |-> "string", text |-> s]
\* an object with the given own properties
ObjectValue(props) == [kind |-> "object", props |-> props]
ArrayValue(items) == [kind |-> "array", items |-> items]
NoProps == <<>>

\* JavaScript truthiness of a value (a thrown call yields no value at all)
Truthy(v) ==
    CASE v.kind = "null" -> FALSE
      [] v.kind = "string" -> v.text # EmptyString
      [] v.kind = "object" -> TRUE
      [] v.kind = "array" -> TRUE
      [] OTHER -> FALSE

\* v?.p : the property p of v, NullValue (undefined) when v is null or lacks it
Prop(v, p) ==
    IF v.kind = "object" /\ p \in DOMAIN v.props THEN v.props[p] ELSE NullValue

(***************************************************************************)
(* Resolving and creating the AI capabilities                              *)
(*                                                                         *)
(* globals = [ai |-> self.ai, aiOriginTrial |-> chrome.aiOriginTrial],     *)
(* each an object value or NullValue. An API object has the properties     *)
(* capabilities and create, each the outcome of calling it; capabilities   *)
(* is absent when the API has no such function.                            *)
(***************************************************************************)
resolveAISummarizerAPI(globals) ==
    IF Truthy(Prop(globals.ai, "summarizer")) THEN Prop(globals.ai, "summarizer")
    ELSE IF Truthy(Prop(globals.aiOriginTrial, "summarizer"))
         THEN Prop(globals.aiOriginTrial, "summarizer")
    ELSE NullValue

resolveAILanguageModelAPI(globals) ==
    IF Truthy(Prop(globals.ai, "languageModel")) THEN Prop(globals.ai, "languageModel")
    ELSE IF Truthy(Prop(globals.aiOriginTrial, "languageModel"))
         THEN Prop(globals.aiOriginTrial, "languageModel")
    ELSE NullValue

\* a mutant of Caught: the try block without its catch
Uncaught(outcome) == outcome

\* the catch of lines 38-40 (and 54-56): what tryCreateSummarizer and
\* tryCreateLanguageModel return when their try block ended in outcome
Caught(outcome) == IF outcome.kind = "throws" THEN NullValue ELSE outcome

\* tryCreateSummarizer and tryCreateLanguageModel are the same code on the API each
\* resolves. A run of one of them is a record: pc the call it waits on
\* ("capabilities", "create") or "done", api the API resolved, value what it returned.
\* tryCreate is the run up to its first await (lines 28-32, 44-48)
tryCreate(api) ==
    IF ~Truthy(api) THEN [pc |-> "done", api |-> api, value |-> NullValue]
    ELSE IF "capabilities" \in DOMAIN api.props
         THEN [pc |-> "capabilities", api |-> api, value |-> NullValue]
    ELSE [pc |-> "create", api |-> api, value |-> NullValue]

\* capabilities() has answered (lines 32-33, 48-49): the run returns null when the
\* call threw or the answer says available: 'no', and calls create() otherwise
afterCapabilities(c) ==
    LET caps == c.api.props.capabilities
    IN  IF caps.kind = "throws" THEN [c EXCEPT !.pc = "done", !.value = Caught(caps)]
        ELSE IF Prop(caps, "available") = StringValue(<<"n","o">>)
             THEN [c EXCEPT !.pc = "done", !.value = NullValue]
        ELSE [c EXCEPT !.pc = "create"]

\* create() has answered (lines 37, 51-53)
afterCreate(c) ==
    [c EXCEPT !.pc = "done", !.value = Caught(Prop(c.api, "create"))]

(***************************************************************************)
(* Summarizing one tab                                                     *)
(*                                                                         *)
(* env gives the outcome of each external call summarizeTab may make:      *)
(*   page1, page2  chrome.scripting.executeScript (first and second call): *)
(*                 Throws, or the value of the injected function's result  *)
(*   summarize     summarizer.summarize(text)                              *)
(*   prompt        languageModel.prompt(prompt)                            *)
(* The result records the value returned, whether an error escaped, and    *)
(* the external calls made, in order. A summary or output property that is *)
(* truthy is taken to be a string. The text of the second page read only   *)
(* goes into the prompt, so page2 does not decide the result.              *)
(***************************************************************************)
fetchTabTextContent(page) ==
    IF page.kind = "string" THEN slice(page.text, 0, ContentLimit) ELSE EmptyString

Returned(v, calls) == [threw |-> FALSE, value |-> v, calls |-> calls]

\* tab.title || 'Untitled' (line 88)
TitleOf(tab) == IF tab.title # EmptyString THEN tab.title ELSE Untitled

\* lines 95-97: what the answer res of summarizer.summarize yields; done tells
\* whether summarizeTab returns it
SummaryIn(res) ==
    IF res.kind = "string" THEN [done |-> TRUE, value |-> res.text]
    ELSE IF res.kind # "throws" /\ Truthy(Prop(res, "summary"))
         THEN [done |-> TRUE, value |-> Prop(res, "summary").text]
    ELSE [done |-> FALSE]

\* lines 106-108: what the answer res of languageModel.prompt yields
OutputIn(res) ==
    IF res.kind = "string" THEN [done |-> TRUE, value |-> trim(res.text)]
    ELSE IF res.kind # "throws" /\ Truthy(Prop(res, "output"))
         THEN [done |-> TRUE, value |-> trim(Prop(res, "output").text)]
    ELSE [done |-> FALSE]

\* the summarizer attempt (lines 90-100): done tells whether it returned
SummarizerAttempt(summarizer, env) ==
    LET content == fetchTabTextContent(env.page1)
        a == SummaryIn(env.summarize)
    IN  IF ~Truthy(summarizer) THEN [done |-> FALSE, calls |-> <<>>]
        ELSE IF content = EmptyString
             THEN [done |-> FALSE, calls |-> <<"executeScript">>]
        ELSE IF a.done
             THEN [done |-> TRUE, value |-> a.value,
                   calls |-> <<"executeScript", "summarize">>]
        ELSE [done |-> FALSE, calls |-> <<"executeScript", "summarize">>]

\* the language model attempt (lines 102-110)
LanguageModelAttempt(languageModel, env) ==
    LET b == OutputIn(env.prompt)
    IN  IF ~Truthy(languageModel) THEN [done |-> FALSE, calls |-> <<>>]
        ELSE IF b.done
             THEN [done |-> TRUE, value |-> b.value,
                   calls |-> <<"executeScript", "prompt">>]
        ELSE [done |-> FALSE, calls |-> <<"executeScript", "prompt">>]

\* a mutant of summarizeTab: the language model is asked before the summarizer
summarizeTabPromptFirst(tab, summarizer, languageModel, env) ==
    LET title == TitleOf(tab)
        a == SummarizerAttempt(summarizer, env)
        b == LanguageModelAttempt(languageModel, env)
    IN  IF b.done THEN Returned(b.value, b.calls)
        ELSE IF a.done THEN Returned(a.value, b.calls \o a.calls)
        ELSE Returned(SummaryFor \o title, b.calls \o a.calls)

\* summarizeTab (lines 87-113)
summarizeTab(tab, summarizer, languageModel, env) ==
    LET title == TitleOf(tab)
        a == SummarizerAttempt(summarizer, env)
        b == LanguageModelAttempt(languageModel, env)
    IN  IF a.done THEN Returned(a.value, a.calls)
        ELSE IF b.done THEN Returned(b.value, a.calls \o b.calls)
        ELSE Returned(SummaryFor \o title, a.calls \o b.calls)

(***************************************************************************)
(* Grouping the summaries                                                  *)
(***************************************************************************)
Categories == {"Research", "Shopping", "Entertainment", "Work", "Other"}

\* the group set without a category: {}
EmptyGroups == <<>>

ResearchWords ==
    {<<"p","a","p","e","r">>,
     <<"r","e","s","e","a","r","c","h">>,
     <<"a","r","x","i","v">>,
     <<"w","i","k","i">>,
     <<"d","o","c","s">>,
     <<"g","u","i","d","e">>}

ShoppingWords ==
    {<<"a","m","a","z","o","n">>,
     <<"e","b","a","y">>,
     <<"s","h","o","p">>,
     <<"p","r","i","c","e">>,
     <<"d","e","a","l">>,
     <<"b","u","y">>,
     <<"c","a","r","t">>}

EntertainmentWords ==
    {<<"y","o","u","t","u","b","e">>,
     <<"n","e","t","f","l","i","x">>,
     <<"s","p","o","t","i","f","y">>,
     <<"g","a","m","e">>,
     <<"m","o","v","i","e">>,
     <<"m","u","s","i","c">>}

WorkWords ==
    {<<"j","i","r","a">>,
     <<"g","i","t","h","u","b">>,
     <<"g","i","t","l","a","b">>,
     <<"s","l","a","c","k">>,
     <<"n","o","t","i","o","n">>,
     <<"f","i","g","m","a">>,
     <<"d","r","i","v","e">>}

\* /(w1|w2|...)/.test(text)
test(words, text) == \E w \in words : includes(text, w)

\* a mutant of HeuristicBucket: after the Research test the order is Work,
\* Entertainment, Shopping
HeuristicBucketWorkBeforeShopping(item) ==
    LET text == toLowerCase(item.title \o <<" ">> \o item.summary)
    IN  IF test(ResearchWords, text) THEN "Research"
        ELSE IF test(WorkWords, text) THEN "Work"
        ELSE IF test(EntertainmentWords, text) THEN "Entertainment"
        ELSE IF test(ShoppingWords, text) THEN "Shopping"
        ELSE "Other"

\* the if / else-if chain of the heuristic (lines 160-165): the bucket an item is pushed to
HeuristicBucket(item) ==
    LET text == toLowerCase(item.title \o <<" ">> \o item.summary)
    IN  IF test(ResearchWords, text) THEN "Research"
        ELSE IF test(ShoppingWords, text) THEN "Shopping"
        ELSE IF test(EntertainmentWords, text) THEN "Entertainment"
        ELSE IF test(WorkWords, text) THEN "Work"
        ELSE "Other"

\* the loop of the heuristic over summaries[i..], pushing onto groups
RECURSIVE HeuristicLoop(_, _, _)
HeuristicLoop(summaries, i, groups) ==
    IF i > Len(summaries) THEN groups
    ELSE HeuristicLoop(summaries, i + 1,
            [groups EXCEPT ![HeuristicBucket(summaries[i])] = Append(@, summaries[i])])

\* Object.fromEntries(Object.entries(groups).filter(([, v]) => v.length))
DropEmpty(groups) ==
    [k \in {c \in DOMAIN groups : Len(groups[c]) > 0} |-> groups[k]]

\* the heuristic fallback of groupSummaries (lines 157-167)
HeuristicFallback(summaries) ==
    DropEmpty(HeuristicLoop(summaries, 1, [c \in Categories |-> <<>>]))

\* the if / else-if chain of the mock, translated from its own copy (lines
\* 288-292), on the lower-cased text
MockChain(text) ==
    CASE test(ResearchWords, text) -> "Research"
      [] ~test(ResearchWords, text) /\ test(ShoppingWords, text) -> "Shopping"
      [] ~test(ResearchWords, text) /\ ~test(ShoppingWords, text)
         /\ test(EntertainmentWords, text) -> "Entertainment"
      [] ~test(ResearchWords, text) /\ ~test(ShoppingWords, text)
         /\ ~test(EntertainmentWords, text) /\ test(WorkWords, text) -> "Work"
      [] OTHER -> "Other"

\* the bucket of the mock for one item (lines 287-292)
MockBucket(item) == MockChain(toLowerCase(item.title \o <<" ">> \o item.summary))

\* groupSummariesMock (lines 276-297)
groupSummariesMock(summaries) ==
    LET all ==
          [c \in Categories |->
              LET idx == {i \in 1..Len(summaries) : MockBucket(summaries[i]) = c}
                  pick[n \in 0..Len(summaries)] ==
                      IF n = 0 THEN <<>>
                      ELSE IF n \in idx THEN Append(pick[n - 1], summaries[n])
                      ELSE pick[n - 1]
              IN  pick[Len(summaries)]]
    IN  DropEmpty(all)

(***************************************************************************)
(* The AI path of groupSummaries                                           *)
(*                                                                         *)
(* The text the language model answers with is a document                  *)
(*   [fenced |-> whether ``` code fences surround it,                      *)
(*    json   |-> Throws when JSON.parse rejects its body, else the value]  *)
(* and the empty text '' is EmptyString.                                   *)
(***************************************************************************)
Document(fenced, json) == [fenced |-> fenced, json |-> json]

\* text.replace(/^```(?:json)?|```$/g, '')
stripFences(doc) ==
    IF doc = EmptyString THEN doc ELSE [doc EXCEPT !.fenced = FALSE]

\* JSON.parse: the empty text, and a fence left in the text, are syntax errors
JSONparse(doc) ==
    IF doc = EmptyString THEN Throws
    ELSE IF doc.fenced THEN Throws
    ELSE doc.json

\* typeof v === 'object' for a truthy v
IsObjectType(v) == v.kind \in {"object", "array"}

\* Object.entries(v) as a function from the own keys to their values
ObjectEntries(v) ==
    IF v.kind = "array"
    THEN [k \in {ToString(i - 1) : i \in DOMAIN v.items} |->
              v.items[CHOOSE i \in DOMAIN v.items : ToString(i - 1) = k]]
    ELSE v.props

\* item.p || ''
TextOr(item, p) ==
    IF Truthy(Prop(item, p)) THEN Prop(item, p).text ELSE EmptyString

\* summaries.find(...) of line 141 finds an element
HasMatch(summaries, item) ==
    \E i \in 1..Len(summaries) :
        \/ StringValue(summaries[i].url) = Prop(item, "url")
        \/ StringValue(summaries[i].title) = Prop(item, "title")

\* the callback of v.map (lines 140-149) on an item that is not null
Relink(summaries, item) ==
    IF HasMatch(summaries, item)
    THEN summaries[CHOOSE i \in 1..Len(summaries) :
            /\ \/ StringValue(summaries[i].url) = Prop(item, "url")
               \/ StringValue(summaries[i].title) = Prop(item, "title")
            /\ \A j \in 1..(i - 1) :
                  /\ StringValue(summaries[j].url) # Prop(item, "url")
                  /\ StringValue(summaries[j].title) # Prop(item, "title")]
    ELSE [tabId |-> Null,
          url |-> TextOr(item, "url"),
          title |-> TextOr(item, "title"),
          favIconUrl |-> EmptyString,
          summary |-> TextOr(item, "summary")]

\* lines 136-151: the entries whose value is an array, each item mapped back;
\* Throws when an item is null (reading item.url throws a TypeError). Line 140
\* assigns cleaned[k]: with k = '__proto__' the assignment sets the prototype of
\* cleaned and adds no key, the items having been mapped all the same
Cleaned(summaries, groups) ==
    LET entries == ObjectEntries(groups)
        arrays == {k \in DOMAIN entries : entries[k].kind = "array"}
    IN  IF \E k \in arrays : \E i \in DOMAIN entries[k].items :
              entries[k].items[i].kind = "null"
        THEN Throws
        ELSE [kind |-> "cleaned",
              groups |-> [k \in arrays \ {"__proto__"} |->
                            [i \in DOMAIN entries[k].items |->
                                Relink(summaries, entries[k].items[i])]]]

\* the try block of groupSummaries (lines 119-153): Throws when a step throws,
\* [kind |-> "cleaned"] when line 152 returns, NullValue when it falls out of the block
AIGrouping(summaries, prompt) ==
    LET raw == prompt
        text == IF raw.kind = "string" THEN raw.text
                ELSE IF Truthy(Prop(raw, "output")) THEN Prop(raw, "output").text
                ELSE EmptyString
        parsed == JSONparse(stripFences(text))
        groups == Prop(parsed, "groups")
        cleaned == Cleaned(summaries, groups)
    IN  IF raw.kind = "throws" THEN Throws
        ELSE IF parsed.kind = "throws" THEN Throws
        ELSE IF ~(Truthy(parsed) /\ Truthy(groups) /\ IsObjectType(groups)) THEN NullValue
        ELSE IF cleaned.kind = "throws" THEN Throws
        ELSE IF DOMAIN cleaned.groups # {} THEN cleaned
        ELSE NullValue

\* a mutant of groupSummaries: a failed AI attempt yields no groups at all
groupSummariesNoFallback(summaries, languageModel, prompt) ==
    LET ai == AIGrouping(summaries, prompt)
    IN  IF ~Truthy(languageModel) \/ Len(summaries) = 0
        THEN [threw |-> FALSE, value |-> HeuristicFallback(summaries)]
        ELSE IF ai.kind = "cleaned" THEN [threw |-> FALSE, value |-> ai.groups]
        ELSE [threw |-> FALSE, value |-> EmptyGroups]

\* groupSummaries (lines 116-168); prompt is the outcome of languageModel.prompt
groupSummaries(summaries, languageModel, prompt) ==
    LET ai == AIGrouping(summaries, prompt)
    IN  IF Truthy(languageModel) /\ Len(summaries) > 0 /\ ai.kind = "cleaned"
        THEN [threw |-> FALSE, value |-> ai.groups]
        ELSE [threw |-> FALSE, value |-> HeuristicFallback(summaries)]

(***************************************************************************)
(* chrome.storage.local                                                    *)
(***************************************************************************)
\* chrome.storage.local.set(items): the keys of items are written, the others kept
StorageSet(st, items) ==
    [k \in (DOMAIN st) \cup (DOMAIN items) |->
        IF k \in DOMAIN items THEN items[k] ELSE st[k]]

\* chrome.storage.local.get(key): an object holding the key when it is stored
StorageGet(st, key) ==
    [k \in {key} \cap (DOMAIN st) |-> st[k]]

DefaultSnapshot == [generatedAt |-> Null, groups |-> EmptyGroups]

(***************************************************************************)
(* The operations of the worker                                            *)
(***************************************************************************)
\* line 184: the tabs the loop skips
Skipped(tab) ==
    \/ tab.id = 0
    \/ tab.pendingUrl = NewTabUrl
    \/ startsWith(tab.url, ChromeScheme)

\* summarizeTabMock (lines 270-273)
summarizeTabMock(tab) == SummaryFor \o TitleOf(tab)

\* line 308: the tabs the mocked worker's loop skips
SkippedMocked(tab) ==
    \/ tab.id = 0
    \/ tab.pendingUrl = NewTabUrl

\* the loop of lines 307-316: the records carry no windowId
RECURSIVE SummarizeLoopMocked(_, _, _)
SummarizeLoopMocked(tabs, i, summaries) ==
    IF i > Len(tabs) THEN summaries
    ELSE IF SkippedMocked(tabs[i]) THEN SummarizeLoopMocked(tabs, i + 1, summaries)
    ELSE SummarizeLoopMocked(tabs, i + 1,
            Append(summaries,
                   [tabId |-> tabs[i].id,
                    url |-> tabs[i].url,
                    title |-> tabs[i].title,
                    favIconUrl |-> tabs[i].favIconUrl,
                    summary |-> summarizeTabMock(tabs[i])]))

\* processTabsAndStore of the mocked worker (lines 303-326)
processTabsAndStoreMocked(st, tabs, t) ==
    LET payload == [generatedAt |-> t,
                    groups |-> groupSummariesMock(SummarizeLoopMocked(tabs, 1, <<>>))]
    IN  [threw |-> FALSE, value |-> payload,
         storage |-> StorageSet(st, [latestGroups |-> payload])]

\* a mutant of getLatestGroups: the default snapshot carries a timestamp
getLatestGroupsDatedDefault(st) ==
    IF "latestGroups" \in DOMAIN st THEN st.latestGroups
    ELSE [generatedAt |-> 0, groups |-> EmptyGroups]

\* a mutant of getLatestGroups: the stored snapshot is ignored
getLatestGroupsAlwaysDefault(st) ==
    [generatedAt |-> Null, groups |-> EmptyGroups]

\* getLatestGroups (lines 202-205)
getLatestGroups(st) ==
    LET res == StorageGet(st, "latestGroups")
    IN  IF "latestGroups" \in DOMAIN res THEN res.latestGroups ELSE DefaultSnapshot

\* { id, name, ...latest }: the properties of latest come last and win
Spread(base, latest) ==
    [k \in (DOMAIN base) \cup (DOMAIN latest) |->
        IF k \in DOMAIN latest THEN latest[k] ELSE base[k]]

\* saveSession (lines 207-219): sessionName is message?.name, t the reading of
\* Date.now(), locale the text new Date().toLocaleString() gives
saveSession(st, sessionName, t, locale) ==
    LET latest == getLatestGroups(st)
        got == StorageGet(st, "savedSessions")
        existing == IF "savedSessions" \in DOMAIN got THEN got.savedSessions ELSE <<>>
        session == Spread([id |-> toDecimal(t),
                           name |-> IF Truthy(sessionName) THEN sessionName.text
                                    ELSE SessionPrefix \o locale],
                          latest)
        updated == existing \o <<session>>
    IN  [threw |-> FALSE, value |-> session,
         storage |-> StorageSet(st, [savedSessions |-> updated])]

\* what the onInstalled listener stores (line 223)
InstalledDefaults == [latestGroups |-> DefaultSnapshot, savedSessions |-> <<>>]

\* the response of the message listener to an operation's outcome (lines 228-250)
Response(r) ==
    IF r.threw THEN [ok |-> FALSE, error |-> "error"]
    ELSE [ok |-> TRUE, data |-> r.value]

NoResponse == [ok |-> FALSE, error |-> "none"]

(***************************************************************************)
(* Inputs: tabs, collaborators, messages                                   *)
(***************************************************************************)
Tab(id, url, title, pendingUrl) ==
    [id |-> id, windowId |-> 1, url |-> url, title |-> title,
     favIconUrl |-> EmptyString, pendingUrl |-> pendingUrl]

UrlA == <<"a",".","i","o">>
UrlB == <<"b",".","i","o">>
UrlChrome == <<"c","h","r","o","m","e",":","/","/","x">>
TitleDocs == <<"G","i","t","H","u","b"," ","D","o","c","s">>
TitleShop == <<"S","h","o","p">>

TabA == Tab(1, UrlA, TitleDocs, EmptyString)
TabB == Tab(2, UrlB, EmptyString, EmptyString)
TabChrome == Tab(3, UrlChrome, TitleShop, EmptyString)
TabNoId == Tab(0, UrlB, TitleShop, EmptyString)
TabNew == Tab(4, EmptyString, TitleShop, NewTabUrl)

TextArxiv == <<"a","r","x","i","v"," ","p","a","p","e","r">>
TextAmazon == <<"a","m","a","z","o","n"," ","d","e","a","l">>
TextYoutube == <<"y","o","u","t","u","b","e"," ","v","i","d","e","o">>
TextPadded == <<"\t"," ","J","i","r","a"," ","b","o","a","r","d","\r","\n">>
TextPlain == <<"n","e","w","s">>
TextReadily == <<"r","e","a","d","i","l","y">>
TextNo == <<"n","o">>

\* an AI API object: capabilities() and create() answer with the given outcomes
Api(capabilities, create) ==
    ObjectValue([capabilities |-> capabilities, create |-> create])
\* an AI API object without a capabilities function
ApiNoCapabilities(create) == ObjectValue([create |-> create])
Available(text) == ObjectValue([available |-> StringValue(text)])
Instance == ObjectValue(NoProps)

\* the API objects tried: working, working without capabilities(), capabilities()
\* throws, available: 'no', create() throws, create() gives nothing
Apis ==
    {Api(Available(TextReadily), Instance), ApiNoCapabilities(Instance),
     Api(Throws, Instance), Api(Available(TextNo), Instance),
     Api(Available(TextReadily), Throws), Api(NullValue, NullValue)}

\* self.ai and chrome.aiOriginTrial: objects holding the APIs given (NullValue: none)
Holder(summarizer, languageModel) ==
    ObjectValue([k \in {n \in {"summarizer", "languageModel"} :
                          IF n = "summarizer" THEN summarizer.kind # "null"
                          ELSE languageModel.kind # "null"} |->
                    IF k = "summarizer" THEN summarizer ELSE languageModel])

Globals(ai, aiOriginTrial) == [ai |-> ai, aiOriginTrial |-> aiOriginTrial]

\* an item of an AI answer with the given properties
Item(props) == ObjectValue(props)

\* the answers of the language model to the grouping prompt
GroupsAnswer(groups) == Document(FALSE, ObjectValue([groups |-> groups]))
AnswerRelinked ==
    GroupsAnswer(ObjectValue([Reading |-> ArrayValue(<<Item([url |-> StringValue(UrlA)])>>)]))
AnswerEmptyCategory ==
    GroupsAnswer(ObjectValue([Reading |-> ArrayValue(<<Item([url |-> StringValue(UrlA)])>>),
                              Later |-> ArrayValue(<<>>)]))
AnswerHallucinated ==
    GroupsAnswer(ObjectValue([Reading |-> ArrayValue(<<Item([url |-> StringValue(UrlChrome),
                                                            title |-> StringValue(TitleShop)])>>)]))
AnswerNoGroups == Document(FALSE, ObjectValue([categories |-> ObjectValue(NoProps)]))
AnswerBadJson == Document(FALSE, Throws)

WorkingApi == Api(Available(TextReadily), Instance)

Env(page1, summarize, page2, prompt) ==
    [page1 |-> page1, summarize |-> summarize, page2 |-> page2, prompt |-> prompt]

World(globals, env, groupPrompt) ==
    [globals |-> globals, env |-> env, groupPrompt |-> groupPrompt]

\* both capabilities work; the summarizer's answer carries no summary, so the
\* language model is asked for it too; the grouping answer names one tab by its url
WorldAI ==
    World(Globals(Holder(WorkingApi, WorkingApi), NullValue),
          Env(StringValue(TextPlain), NullValue,
              StringValue(TextPlain), StringValue(TextPadded)),
          StringValue(AnswerRelinked))

\* what chrome.tabs.query answers and how the collaborators behave in Spec
SpecTabLists == {<<TabA, TabChrome>>}
SpecWorlds == {WorldAI}

NameGiven == <<"m","y">>
\* message?.name: absent, or a name
SessionNames == {NullValue, StringValue(NameGiven)}
\* what new Date().toLocaleString() may give
LocaleStrings == {<<"d","a","y">>}

NoCall == [fn |-> "none"]
NoResult == [fn |-> "none"]

(***************************************************************************)
(* The worker as a state machine                                           *)
(*                                                                         *)
(* The message listener (lines 226-253) starts an async function per       *)
(* message and returns at once, so the handlers of several messages are in *)
(* flight together and take turns at their awaits. A handler is a frame:   *)
(* its message, its position (the call it waits on) and its locals. A step *)
(* is the answer of the call a handler waits on and the run of the handler *)
(* from there to its next call; a read or a write of chrome.storage.local  *)
(* takes effect in one step. The positions of a PROCESS_TABS handler:      *)
(*   "query"      chrome.tabs.query (line 175)                             *)
(*   "create"     Promise.all of the two tryCreate... runs (line 177),     *)
(*                each waiting on capabilities() or create() or done       *)
(*   "page1"      executeScript for the summarizer attempt (line 92)       *)
(*   "summarize"  summarizer.summarize (line 95)                           *)
(*   "page2"      executeScript for the language model attempt (line 104)  *)
(*   "prompt"     languageModel.prompt for the summary (line 106)          *)
(*   "group"      languageModel.prompt for the grouping (line 130)         *)
(*   "store"      chrome.storage.local.set (line 198)                      *)
(*   "respond"    the operation has returned or thrown                     *)
(* Line 197 reads the clock in the step that answers the last call before  *)
(* it.                                                                     *)
(*                                                                         *)
(* The file holds the worker twice: lines 1-257 with the AI capabilities   *)
(* (listener "ai") and lines 259-383 with the mocked ones (listener        *)
(* "mocked"). The two differ in processTabsAndStore only, so the listener  *)
(* is told apart for PROCESS_TABS messages only. The mocked run calls      *)
(* nothing but chrome.tabs.query before its write.                         *)
(*                                                                         *)
(* chrome.tabs.query and chrome.storage.local are taken to answer; the AI  *)
(* capabilities and the page text are the collaborators that may be        *)
(* missing or throw.                                                       *)
(***************************************************************************)
NoOutcome == [threw |-> FALSE, value |-> NullValue]

\* no run of tryCreateSummarizer or tryCreateLanguageModel yet
NotCreated == [pc |-> "done", api |-> NullValue, value |-> NullValue]

\* the messages the popup sends (src/popup.js: processNow, loadLatest, saveSession)
Messages ==
    {[type |-> "SAVE_SESSION", name |-> n, listener |-> "ai"] : n \in SessionNames}
        \cup {[type |-> "PROCESS_TABS", name |-> NullValue, listener |-> l] :
                 l \in {"ai", "mocked"}}
        \cup {[type |-> "GET_LATEST_GROUPS", name |-> NullValue, listener |-> "ai"]}

\* the first await of the handler of a message of the given type
FirstPosition(type) ==
    CASE type = "SAVE_SESSION" -> "readLatest"
      [] type = "PROCESS_TABS" -> "query"
      [] type = "GET_LATEST_GROUPS" -> "read"
      [] OTHER -> "done"

\* the handler of a message, started and suspended at its first await
Frame(message) ==
    [type |-> message.type,
     name |-> message.name,
     listener |-> message.listener,
     pc |-> FirstPosition(message.type),
     latest |-> DefaultSnapshot,
     existing |-> <<>>,
     updated |-> <<>>,
     tabs |-> <<>>,
     summarizer |-> NotCreated,
     languageModel |-> NotCreated,
     i |-> 1,
     summaries |-> <<>>,
     out |-> NoOutcome,
     resp |-> NoResponse]

\* a handler that has returned: its locals are gone, its response stays on record
Completed(frame) ==
    [Frame(frame) EXCEPT !.pc = "done", !.resp = Response(frame.out)]

At(h, type, pc) ==
    /\ handlers[h].type = type
    /\ handlers[h].pc = pc

Init ==
    /\ storage = <<>>
    /\ now = 0
    /\ call = NoCall
    /\ result = NoResult
    /\ handlers = <<>>

\* the clock advances
Tick ==
    /\ now < MaxClock
    /\ now' = now + 1
    /\ UNCHANGED <<storage, call, result, handlers>>

\* chrome.runtime.onInstalled listener (lines 221-224, and 347-350): it sends no
\* response and awaits nothing, so its run is never in flight
OnInstalled ==
    /\ Len(handlers) < MaxHandlers
    /\ storage' = StorageSet(storage, InstalledDefaults)
    /\ handlers' = Append(handlers,
            Frame([type |-> "onInstalled", name |-> NullValue, listener |-> "ai"]))
    /\ UNCHANGED <<now, call, result>>

\* the change listener of the popup's dark mode toggle stores the theme
\* (src/popup.js lines 189-193); it awaits nothing
ToggleTheme ==
    /\ Len(handlers) < MaxHandlers
    /\ \E isLight \in BOOLEAN :
          storage' = StorageSet(storage, [theme |-> IF isLight THEN "light" ELSE "dark"])
    /\ handlers' = Append(handlers,
            Frame([type |-> "themeChange", name |-> NullValue, listener |-> "popup"]))
    /\ UNCHANGED <<now, call, result>>

\* the default case: a message of another type is answered before any await
\* (lines 245-246), so its handler is never in flight
UnknownMessage ==
    /\ Len(handlers) < MaxHandlers
    /\ handlers' = Append(handlers,
            [Frame([type |-> "unknown", name |-> NullValue, listener |-> "ai"])
                EXCEPT !.resp = [ok |-> FALSE, error |-> "Unknown message type"]])
    /\ UNCHANGED <<storage, now, call, result>>

\* a message arrives: the listener starts its handler and returns (lines 226-227, 251-252)
ReceiveMessage ==
    /\ Len(handlers) < MaxHandlers
    /\ \E message \in Messages : handlers' = Append(handlers, Frame(message))
    /\ UNCHANGED <<storage, now, call, result>>

\* saveSession, line 208: await getLatestGroups()
SaveReadLatest ==
    /\ \E h \in DOMAIN handlers :
          /\ At(h, "SAVE_SESSION", "readLatest")
          /\ handlers' = [handlers EXCEPT ![h].latest = getLatestGroups(storage),
                                          ![h].pc = "readExisting"]
    /\ UNCHANGED <<storage, now, call, result>>

\* saveSession, line 210: await chrome.storage.local.get('savedSessions')
SaveReadExisting ==
    /\ \E h \in DOMAIN handlers :
          /\ At(h, "SAVE_SESSION", "readExisting")
          /\ LET got == StorageGet(storage, "savedSessions")
             IN  handlers' =
                    [handlers EXCEPT ![h].existing = IF "savedSessions" \in DOMAIN got
                                                     THEN got.savedSessions ELSE <<>>,
                                     ![h].pc = "build"]
    /\ UNCHANGED <<storage, now, call, result>>

\* saveSession, lines 211-217: the session record and the list handed to
\* chrome.storage.local.set
SaveBuild ==
    /\ \E h \in DOMAIN handlers, locale \in LocaleStrings :
          /\ At(h, "SAVE_SESSION", "build")
          /\ LET r == saveSession([latestGroups |-> handlers[h].latest,
                                   savedSessions |-> handlers[h].existing],
                                  handlers[h].name, now, locale)
             IN  handlers' =
                    [handlers EXCEPT ![h].updated = r.storage.savedSessions,
                                     ![h].out = [threw |-> FALSE, value |-> r.value],
                                     ![h].pc = "write"]
    /\ UNCHANGED <<storage, now, call, result>>

\* saveSession, line 217: the write of savedSessions takes effect
SaveWrite ==
    /\ \E h \in DOMAIN handlers :
          /\ At(h, "SAVE_SESSION", "write")
          /\ storage' = StorageSet(storage, [savedSessions |-> handlers[h].updated])
          /\ handlers' = [handlers EXCEPT ![h].pc = "respond"]
    /\ UNCHANGED <<now, call, result>>

\* processTabsAndStore throws: the error reaches the catch of the listener (line 248)
Rejected(f) == [f EXCEPT !.out = [threw |-> TRUE], !.pc = "respond"]

\* lines 197-198: the payload is built with the reading t of the clock and handed
\* to chrome.storage.local.set
WithPayload(f, grouped, t) ==
    [f EXCEPT !.out = [threw |-> FALSE,
                       value |-> [generatedAt |-> t, groups |-> grouped]],
              !.pc = "store"]

\* line 196 up to the next await: groupSummaries prompts the language model when
\* there is one and there are summaries (line 117), and returns the keyword groups
\* at once otherwise
EnterGroup(f, t) ==
    IF Truthy(f.languageModel.value) /\ Len(f.summaries) > 0
    THEN [f EXCEPT !.pc = "group"]
    ELSE WithPayload(f, groupSummaries(f.summaries, f.languageModel.value, NullValue).value, t)

RECURSIVE RunLoop(_, _)
\* summarizeTab has returned summary for tabs[f.i]: the record is pushed (lines
\* 186-193) and the loop goes on
PushSummary(f, summary, t) ==
    RunLoop([f EXCEPT !.summaries = Append(@, [tabId |-> f.tabs[f.i].id,
                                               windowId |-> f.tabs[f.i].windowId,
                                               url |-> f.tabs[f.i].url,
                                               title |-> f.tabs[f.i].title,
                                               favIconUrl |-> f.tabs[f.i].favIconUrl,
                                               summary |-> summary]),
                      !.i = @ + 1], t)

\* summarizeTab from line 101 on: the language model attempt when there is a
\* language model, the static summary otherwise
EnterLanguageModel(f, t) ==
    IF Truthy(f.languageModel.value) THEN [f EXCEPT !.pc = "page2"]
    ELSE PushSummary(f, SummaryFor \o TitleOf(f.tabs[f.i]), t)

\* the loop of lines 183-194 from tabs[f.i] on, up to the next await of the run
RunLoop(f, t) ==
    IF f.i > Len(f.tabs) THEN EnterGroup(f, t)
    ELSE IF Skipped(f.tabs[f.i]) THEN RunLoop([f EXCEPT !.i = @ + 1], t)
    ELSE IF Truthy(f.summarizer.value) THEN [f EXCEPT !.pc = "page1"]
    ELSE EnterLanguageModel(f, t)

\* line 177: Promise.all rejects as soon as one of the two runs has thrown, and
\* resolves when both have returned
AfterCreators(f, t) ==
    IF \E c \in {f.summarizer, f.languageModel} : c.pc = "done" /\ c.value.kind = "throws"
    THEN Rejected(f)
    ELSE IF f.summarizer.pc = "done" /\ f.languageModel.pc = "done"
         THEN RunLoop([f EXCEPT !.i = 1], t)
    ELSE f

\* chrome.tabs.query answers with tabs (line 175, and 304). The worker with AI
\* starts its two tryCreate... runs on the APIs it resolves from world.globals;
\* the mocked worker runs on to its payload (lines 305-322)
ProcessQueryWith(h, tabs, world) ==
    /\ At(h, "PROCESS_TABS", "query")
    /\ handlers' =
          [handlers EXCEPT ![h] =
              IF @.listener = "mocked"
              THEN WithPayload([@ EXCEPT !.tabs = tabs],
                               processTabsAndStoreMocked(<<>>, tabs, now).value.groups, now)
              ELSE AfterCreators(
                       [@ EXCEPT !.tabs = tabs,
                                 !.summarizer =
                                     tryCreate(resolveAISummarizerAPI(world.globals)),
                                 !.languageModel =
                                     tryCreate(resolveAILanguageModelAPI(world.globals)),
                                 !.pc = "create"], now)]
    /\ UNCHANGED <<storage, now, call, result>>

ProcessQuery ==
    \E h \in DOMAIN handlers, tabs \in SpecTabLists, world \in SpecWorlds :
        ProcessQueryWith(h, tabs, world)

\* the two runs started by line 177, by the local they fill
Creators == {"summarizer", "languageModel"}

\* capabilities() of one of the two APIs answers (lines 32, 48)
ProcessCapabilities ==
    /\ \E h \in DOMAIN handlers, which \in Creators :
          /\ At(h, "PROCESS_TABS", "create")
          /\ handlers[h][which].pc = "capabilities"
          /\ handlers' =
                [handlers EXCEPT ![h] =
                    AfterCreators([@ EXCEPT ![which] = afterCapabilities(@)], now)]
    /\ UNCHANGED <<storage, now, call, result>>

\* create() of one of the two APIs answers (lines 37, 51)
ProcessCreate ==
    /\ \E h \in DOMAIN handlers, which \in Creators :
          /\ At(h, "PROCESS_TABS", "create")
          /\ handlers[h][which].pc = "create"
          /\ handlers' =
                [handlers EXCEPT ![h] =
                    AfterCreators([@ EXCEPT ![which] = afterCreate(@)], now)]
    /\ UNCHANGED <<storage, now, call, result>>

\* chrome.scripting.executeScript answers fetchTabTextContent (lines 61-83). For
\* the summarizer attempt (line 92) an empty text ends the attempt (line 93); for
\* the language model attempt (line 104) the prompt follows whatever the text
ProcessFetchTextWith(h, world) ==
    /\ handlers[h].type = "PROCESS_TABS"
    /\ handlers[h].pc \in {"page1", "page2"}
    /\ handlers' =
          [handlers EXCEPT ![h] =
              IF @.pc = "page2" THEN [@ EXCEPT !.pc = "prompt"]
              ELSE IF fetchTabTextContent(world.env.page1) # EmptyString
                   THEN [@ EXCEPT !.pc = "summarize"]
              ELSE EnterLanguageModel(@, now)]
    /\ UNCHANGED <<storage, now, call, result>>

ProcessFetchText ==
    \E h \in DOMAIN handlers, world \in SpecWorlds : ProcessFetchTextWith(h, world)

\* summarizer.summarize answers (lines 95-99)
ProcessSummarizeWith(h, world) ==
    /\ At(h, "PROCESS_TABS", "summarize")
    /\ handlers' =
          [handlers EXCEPT ![h] =
              IF SummaryIn(world.env.summarize).done
              THEN PushSummary(@, SummaryIn(world.env.summarize).value, now)
              ELSE EnterLanguageModel(@, now)]
    /\ UNCHANGED <<storage, now, call, result>>

ProcessSummarize ==
    \E h \in DOMAIN handlers, world \in SpecWorlds : ProcessSummarizeWith(h, world)

\* languageModel.prompt answers the summary prompt (lines 106-112)
ProcessPromptWith(h, world) ==
    /\ At(h, "PROCESS_TABS", "prompt")
    /\ handlers' =
          [handlers EXCEPT ![h] =
              PushSummary(@, IF OutputIn(world.env.prompt).done
                             THEN OutputIn(world.env.prompt).value
                             ELSE SummaryFor \o TitleOf(@.tabs[@.i]), now)]
    /\ UNCHANGED <<storage, now, call, result>>

ProcessPrompt ==
    \E h \in DOMAIN handlers, world \in SpecWorlds : ProcessPromptWith(h, world)

\* languageModel.prompt answers the grouping prompt (line 130): groupSummaries
\* returns (lines 131-168) and the payload is built
ProcessGroupWith(h, world) ==
    /\ At(h, "PROCESS_TABS", "group")
    /\ handlers' =
          [handlers EXCEPT ![h] =
              LET grouped == groupSummaries(@.summaries, @.languageModel.value,
                                            world.groupPrompt)
              IN  IF grouped.threw THEN Rejected(@)
                  ELSE WithPayload(@, grouped.value, now)]
    /\ UNCHANGED <<storage, now, call, result>>

ProcessGroup ==
    \E h \in DOMAIN handlers, world \in SpecWorlds : ProcessGroupWith(h, world)

\* a mutant of ProcessStore: the payload is merged into the snapshot stored
ProcessStoreMerged ==
    /\ \E h \in DOMAIN handlers :
          /\ At(h, "PROCESS_TABS", "store")
          /\ storage' = StorageSet(storage,
                [latestGroups |-> StorageSet(getLatestGroups(storage).groups,
                                             handlers[h].out.value)])
          /\ handlers' = [handlers EXCEPT ![h].pc = "respond"]
    /\ UNCHANGED <<now, call, result>>

\* processTabsAndStore, line 198 (and 324): the write of latestGroups takes effect
ProcessStore ==
    /\ \E h \in DOMAIN handlers :
          /\ At(h, "PROCESS_TABS", "store")
          /\ storage' = StorageSet(storage, [latestGroups |-> handlers[h].out.value])
          /\ handlers' = [handlers EXCEPT ![h].pc = "respond"]
    /\ UNCHANGED <<now, call, result>>

\* getLatestGroups, line 203, awaited by the GET_LATEST_GROUPS case (line 236)
GetRead ==
    /\ \E h \in DOMAIN handlers :
          /\ At(h, "GET_LATEST_GROUPS", "read")
          /\ handlers' = [handlers EXCEPT
                             ![h].out = [threw |-> FALSE, value |-> getLatestGroups(storage)],
                             ![h].pc = "respond"]
    /\ UNCHANGED <<storage, now, call, result>>

\* the operation returned (or threw): sendResponse (lines 232, 237, 242, 249)
Respond ==
    /\ \E h \in DOMAIN handlers :
          /\ handlers[h].pc = "respond"
          /\ handlers' = [handlers EXCEPT ![h] = Completed(handlers[h])]
    /\ UNCHANGED <<storage, now, call, result>>

Next ==
    \/ Tick
    \/ OnInstalled
    \/ ToggleTheme
    \/ UnknownMessage
    \/ ReceiveMessage
    \/ SaveReadLatest
    \/ SaveReadExisting
    \/ SaveBuild
    \/ SaveWrite
    \/ ProcessQuery
    \/ ProcessCapabilities
    \/ ProcessCreate
    \/ ProcessFetchText
    \/ ProcessSummarize
    \/ ProcessPrompt
    \/ ProcessGroup
    \/ ProcessStore
    \/ GetRead
    \/ Respond

Spec == Init /\ [][Next]_vars

(***************************************************************************)
(* summarizeTab on its own: every outcome of each external call            *)
(***************************************************************************)
Pages == {Throws, NullValue, StringValue(EmptyString), StringValue(TextPlain)}

SummarizeOutcomes ==
    {Throws, NullValue, StringValue(TextArxiv), StringValue(EmptyString),
     ObjectValue([summary |-> StringValue(TextAmazon)]),
     ObjectValue([summary |-> StringValue(EmptyString)]), ObjectValue(NoProps)}

PromptOutcomes ==
    {Throws, NullValue, StringValue(TextPadded), StringValue(EmptyString),
     ObjectValue([output |-> StringValue(TextPadded)]), ObjectValue(NoProps)}

SummarizeCalls ==
    {[fn |-> "summarizeTab", tab |-> tab, summarizer |-> s, languageModel |-> m,
      env |-> Env(p1, so, p2, po)] :
        tab \in {TabA, TabB}, s \in {NullValue, Instance}, m \in {NullValue, Instance},
        p1 \in Pages, so \in SummarizeOutcomes, p2 \in Pages, po \in PromptOutcomes}

InitSummarize ==
    /\ call \in SummarizeCalls
    /\ result = NoResult
    /\ storage = <<>> /\ now = 0 /\ handlers = <<>>

CallSummarizeTab ==
    /\ call.fn = "summarizeTab"
    /\ result = NoResult
    /\ result' = [fn |-> "summarizeTab",
                  ret |-> summarizeTab(call.tab, call.summarizer, call.languageModel,
                                       call.env)]
    /\ UNCHANGED <<storage, now, call, handlers>>

SpecSummarize == InitSummarize /\ [][CallSummarizeTab]_vars

(***************************************************************************)
(* groupSummaries on its own                                               *)
(***************************************************************************)
\* the summary record of line 186 for tab number k
Summary(k, title, text) ==
    [tabId |-> k, windowId |-> 1, url |-> <<"t">> \o toDecimal(k), title |-> title,
     favIconUrl |-> EmptyString, summary |-> text]

\* 'WI' U+212A 'I': the Kelvin sign lower-cases to 'k'
TitleKelvin == <<"W","I","U+212A","I">>
\* titles with a keyword of Entertainment and of Work
TitleGame == <<"G","a","m","e">>
TitleSlack == <<"S","l","a","c","k">>
\* 'GitHub Docs' has keywords of Research and of Work, 'Shop' one of Shopping: with
\* the texts below an item may match every pair of categories
SummaryTitles == {EmptyString, TitleDocs, TitleKelvin, TitleShop, TitleGame, TitleSlack}
SummaryTexts == {TextArxiv, TextAmazon, TextYoutube, TextPadded, TextPlain}

\* the lists of n summaries, tab k at place k
SummaryLists(n) ==
    {[k \in 1..n |-> Summary(k, pick[k][1], pick[k][2])] :
        pick \in [1..n -> SummaryTitles \X SummaryTexts]}

\* the lists the AI answers are tried on: two tabs share the title 'GitHub Docs'
ListOne == <<Summary(1, TitleDocs, TextPlain)>>
ListThree ==
    <<Summary(1, TitleDocs, TextPlain), Summary(2, TitleDocs, TextArxiv),
      Summary(3, EmptyString, TextAmazon)>>
AnsweredLists == {<<>>, ListOne, ListThree}

TitleGhost == <<"G","h","o","s","t">>

\* the items an AI answer may hold: null, a primitive, an object naming tab 2 by url,
\* tab 1 and 2 by title, the untitled tab by its empty title, and no tab at all
AnswerItems ==
    {NullValue,
     StringValue(TextPlain),
     Item([url |-> StringValue(<<"t", "2">>), title |-> StringValue(TitleGhost)]),
     Item([title |-> StringValue(TitleDocs)]),
     Item([title |-> StringValue(EmptyString)]),
     Item([url |-> StringValue(<<"t", "9">>), title |-> StringValue(TitleGhost),
           summary |-> StringValue(TextPlain)])}

RECURSIVE ItemArrays(_)
ItemArrays(n) ==
    IF n = 0 THEN {<<>>}
    ELSE ItemArrays(n - 1) \cup
         {Append(a, i) : a \in {b \in ItemArrays(n - 1) : Len(b) = n - 1}, i \in AnswerItems}

\* the values of a category: not an array, or an array of at most MaxItems items
CategoryValues == {StringValue(TextPlain)} \cup {ArrayValue(a) : a \in ItemArrays(MaxItems)}

\* the values of parsed.groups that are objects or arrays
GroupObjects ==
    {ObjectValue(NoProps), ArrayValue(<<ArrayValue(<<Item([title |-> StringValue(TitleDocs)])>>)>>)}
    \cup {ObjectValue([Reading |-> v]) : v \in CategoryValues}
    \cup {ObjectValue([__proto__ |-> v]) : v \in CategoryValues}
    \cup {ObjectValue([Reading |-> v, __proto__ |-> ArrayValue(<<Item([title |-> StringValue(TitleDocs)])>>)]) :
            v \in CategoryValues}
    \cup {ObjectValue([Reading |-> v, Later |-> w]) :
            v \in CategoryValues,
            w \in {StringValue(TextPlain), ArrayValue(<<>>),
                   ArrayValue(<<Item([title |-> StringValue(TitleDocs)])>>)}}

\* the texts of an answer: not JSON, JSON without a usable groups property,
\* and JSON with one, bare or inside code fences
AnswerTexts ==
    {EmptyString, AnswerBadJson, AnswerNoGroups,
     Document(FALSE, NullValue), Document(FALSE, ArrayValue(<<>>)),
     GroupsAnswer(NullValue), GroupsAnswer(StringValue(TextPlain))}
    \cup {GroupsAnswer(g) : g \in GroupObjects}
    \cup {Document(TRUE, ObjectValue([groups |-> g])) :
            g \in {ObjectValue([Reading |-> ArrayValue(<<Item([title |-> StringValue(TitleDocs)])>>)])}}

\* the outcomes of languageModel.prompt for the grouping prompt
GroupPrompts ==
    {Throws, NullValue, ObjectValue(NoProps),
     ObjectValue([output |-> StringValue(AnswerRelinked)])}
    \cup {StringValue(t) : t \in AnswerTexts}

\* the calls without a language model, on the lists of n summaries
FallbackCalls(n) ==
    {[fn |-> "groupSummaries", summaries |-> l, languageModel |-> NullValue,
      prompt |-> Throws] : l \in SummaryLists(n)}

\* the calls with a language model, by what it answers
AnsweredCalls ==
    {[fn |-> "groupSummaries", summaries |-> l, languageModel |-> Instance,
      prompt |-> p] : l \in AnsweredLists, p \in GroupPrompts}

InitGroup ==
    /\ \/ \E n \in 0..MaxSummaries : call \in FallbackCalls(n)
       \/ call \in AnsweredCalls
    /\ result = NoResult
    /\ storage = <<>> /\ now = 0 /\ handlers = <<>>

CallGroupSummaries ==
    /\ call.fn = "groupSummaries"
    /\ result = NoResult
    /\ result' = [fn |-> "groupSummaries",
                  ret |-> groupSummaries(call.summaries, call.languageModel, call.prompt)]
    /\ UNCHANGED <<storage, now, call, handlers>>

SpecGroup == InitGroup /\ [][CallGroupSummaries]_vars

(***************************************************************************)
(* One PROCESS_TABS command under every combination of collaborators       *)
(***************************************************************************)
ApiChoices == Apis \cup {NullValue}

\* self.ai holds the two APIs chosen; or chrome.aiOriginTrial does, self.ai holding
\* none or the summarizer only
ProcessGlobals ==
    {Globals(Holder(s, m), NullValue) : s \in ApiChoices, m \in ApiChoices}
    \cup {Globals(NullValue, Holder(WorkingApi, WorkingApi)),
          Globals(Holder(Api(Throws, Instance), NullValue), Holder(WorkingApi, WorkingApi))}

\* the page text is refused, empty or readable, on both reads
ProcessEnvs ==
    {Env(p, so, p, po) :
        p \in {Throws, StringValue(EmptyString), StringValue(TextPlain)},
        so \in {Throws, NullValue, StringValue(TextArxiv)},
        po \in {Throws, NullValue, StringValue(TextPadded)}}

ProcessPrompts ==
    {Throws, StringValue(AnswerBadJson), StringValue(AnswerRelinked),
     StringValue(AnswerEmptyCategory), StringValue(AnswerHallucinated)}

ProcessWorlds ==
    {World(g, e, p) : g \in ProcessGlobals, e \in ProcessEnvs, p \in ProcessPrompts}

ProcessTabLists == {<<TabNoId, TabA, TabNew, TabChrome, TabB>>, <<TabChrome>>}

ProcessCalls ==
    {[fn |-> "PROCESS_TABS", tabs |-> t, world |-> w] :
        t \in ProcessTabLists, w \in ProcessWorlds}

InitProcess ==
    /\ call \in ProcessCalls
    /\ storage \in {<<>>, InstalledDefaults}
    /\ now = 1
    /\ result = NoResult /\ handlers = <<>>

\* the command under study arrives
ReceiveProcessTabs ==
    /\ handlers = <<>>
    /\ handlers' = <<Frame([type |-> call.fn, name |-> NullValue, listener |-> "ai"])>>
    /\ UNCHANGED <<storage, now, call, result>>

\* the steps of its run, with the tabs and the collaborators of the call
QueryProcessTabs == \E h \in DOMAIN handlers : ProcessQueryWith(h, call.tabs, call.world)

FetchTextProcessTabs == \E h \in DOMAIN handlers : ProcessFetchTextWith(h, call.world)

SummarizeProcessTabs == \E h \in DOMAIN handlers : ProcessSummarizeWith(h, call.world)

PromptProcessTabs == \E h \in DOMAIN handlers : ProcessPromptWith(h, call.world)

GroupProcessTabs == \E h \in DOMAIN handlers : ProcessGroupWith(h, call.world)

NextProcess ==
    \/ ReceiveProcessTabs
    \/ QueryProcessTabs
    \/ ProcessCapabilities
    \/ ProcessCreate
    \/ FetchTextProcessTabs
    \/ SummarizeProcessTabs
    \/ PromptProcessTabs
    \/ GroupProcessTabs
    \/ ProcessStore
    \/ Respond

SpecProcess == InitProcess /\ [][NextProcess]_vars

(***************************************************************************)
(* Properties of the storage commands (Spec)                               *)
(***************************************************************************)
SavedSessions(st) ==
    IF "savedSessions" \in DOMAIN st THEN st.savedSessions ELSE <<>>

\* the stored keys other than key, with their values
Others(st, key) == [k \in (DOMAIN st) \ {key} |-> st[k]]

IsPrefix(a, b) == Len(a) <= Len(b) /\ SubSeq(b, 1, Len(a)) = a

\* a step in which handler h goes from the await named from to the one named to
Moves(h, from, to) ==
    /\ handlers[h].pc = from
    /\ handlers'[h].pc = to

\* a step of handler h
Acts(h) == handlers'[h] # handlers[h]

\* the handlers of the messages of the given type received so far
HandlersOf(type) == {h \in DOMAIN handlers : handlers[h].type = type}

\* a key is left as it was: absent stays absent, a stored value stays the same
Kept(key) == StorageGet(storage', key) = StorageGet(storage, key)

\* nothing but PROCESS_TABS commands has happened: no other message, no install event
OnlyProcessing == \A h \in DOMAIN handlers : handlers[h].type = "PROCESS_TABS"

\* C1, as stated: after any sequence of completed PROCESS_TABS commands,
\* latestGroups holds exactly the snapshot {generatedAt, groups} that the most
\* recently completed run returned, and a run does not change savedSessions.
LatestIsLastCompleted ==
    [][\A h \in HandlersOf("PROCESS_TABS") :
          /\ Acts(h) => Kept("savedSessions")
          /\ (OnlyProcessing /\ Moves(h, "respond", "done")) =>
                /\ handlers'[h].resp.ok
                /\ "latestGroups" \in DOMAIN storage'
                /\ storage'.latestGroups = handlers'[h].resp.data]_vars

\* C1, amended: the write of each PROCESS_TABS run replaces latestGroups by
\* exactly one snapshot {generatedAt, groups}, nothing of the earlier snapshot
\* remaining, and changes no other key (savedSessions included); that snapshot
\* is the payload the run then returns. No other step of the run writes storage.
ProcessOverwritesSnapshot ==
    [][\A h \in HandlersOf("PROCESS_TABS") :
          /\ Moves(h, "store", "respond") =>
                /\ "latestGroups" \in DOMAIN storage'
                /\ DOMAIN storage'.latestGroups = {"generatedAt", "groups"}
                /\ storage'.latestGroups = handlers[h].out.value
                /\ Others(storage', "latestGroups") = Others(storage, "latestGroups")
          /\ Moves(h, "respond", "done") =>
                /\ handlers'[h].resp = [ok |-> TRUE, data |-> handlers[h].out.value]
                /\ storage' = storage
          /\ (handlers[h].pc # "store" /\ handlers'[h].pc = "store") =>
                handlers'[h].out.value.generatedAt = now
          /\ (Acts(h) /\ ~Moves(h, "store", "respond")) => storage' = storage]_vars

\* C1 witness: two runs overlapped; the first has written and is about to answer
\* its payload, and the snapshot stored is already the other run's
SnapshotReplaced ==
    \E h1, h2 \in HandlersOf("PROCESS_TABS") :
        /\ handlers[h1].pc = "respond"
        /\ handlers[h2].pc = "done" /\ handlers[h2].resp.ok
        /\ "latestGroups" \in DOMAIN storage
        /\ storage.latestGroups = handlers[h2].resp.data
        /\ storage.latestGroups # handlers[h1].out.value

\* the list handler h read is the list stored: no write of another handler or
\* of an install event has come in between
Current(h) == handlers[h].existing = SavedSessions(storage)

\* C2: every SAVE_SESSION (taken on its own: no other write comes between its
\* read of the list and its write) makes the saved list one entry longer, the new
\* entry last, and the new entry's id differs from the id of every entry saved
\* before.
SaveAppendsDistinctEntry ==
    [][\A h \in HandlersOf("SAVE_SESSION") :
          (Moves(h, "write", "respond") /\ Current(h)) =>
              LET old == SavedSessions(storage)
                  new == SavedSessions(storage')
              IN  /\ Len(new) = Len(old) + 1
                  /\ SubSeq(new, 1, Len(old)) = old
                  /\ new[Len(new)] = handlers[h].out.value
                  /\ \A i \in DOMAIN old : old[i].id # handlers[h].out.value.id]_vars

\* C3: the saved list only grows at its end: every earlier value of the list is a
\* prefix of every later one, whatever event happens.
SessionsAppendOnly ==
    [][IsPrefix(SavedSessions(storage), SavedSessions(storage'))]_vars

\* no processing run has stored a snapshot so far: every PROCESS_TABS handler
\* is still before its write
NeverProcessed ==
    \A h \in HandlersOf("PROCESS_TABS") : handlers[h].pc \notin {"respond", "done"}

\* C4: SAVE_SESSION issued while no processing run has ever stored a snapshot
\* (latestGroups absent, or the installed default) writes a record of empty
\* groups, generatedAt null and a non-empty id at the end of the saved list and
\* answers ok with that record; no step of it writes latestGroups.
SaveWithoutSnapshot ==
    [][\A h \in HandlersOf("SAVE_SESSION") :
          /\ Acts(h) => Kept("latestGroups")
          /\ (NeverProcessed /\ Moves(h, "write", "respond")) =>
                LET new == SavedSessions(storage')
                IN  /\ Len(new) > 0
                    /\ new[Len(new)] = handlers[h].out.value
                    /\ new[Len(new)].groups = EmptyGroups
                    /\ new[Len(new)].generatedAt = Null
                    /\ Len(new[Len(new)].id) > 0
          /\ (NeverProcessed /\ Moves(h, "respond", "done")) =>
                /\ handlers'[h].resp.ok
                /\ handlers'[h].resp.data = handlers[h].out.value
                /\ handlers'[h].resp.data.groups = EmptyGroups
                /\ handlers'[h].resp.data.generatedAt = Null
                /\ Len(handlers'[h].resp.data.id) > 0]_vars

\* C4 witness: a session saved and answered before anything was stored at all
SavedBeforeAnySnapshot ==
    \E h \in HandlersOf("SAVE_SESSION") :
        /\ handlers[h].pc = "done"
        /\ NeverProcessed
        /\ "latestGroups" \notin DOMAIN storage
        /\ Len(SavedSessions(storage)) = 1
        /\ handlers[h].resp.ok
        /\ handlers[h].resp.data = SavedSessions(storage)[1]
        /\ handlers[h].resp.data.generatedAt = Null
        /\ handlers[h].resp.data.groups = EmptyGroups

\* the keys the worker and the popup keep in chrome.storage.local
StoredKeys == {"latestGroups", "savedSessions", "theme"}

\* C11: GET_LATEST_GROUPS is a pure read: what it reads, and then answers with
\* ok: true, is the snapshot stored under latestGroups at the moment it reads,
\* or {generatedAt: null, groups: {}} when none is stored then; no step of it
\* changes latestGroups, savedSessions or theme.
GetLatestIsPureRead ==
    [][\A h \in HandlersOf("GET_LATEST_GROUPS") :
          /\ Acts(h) => \A k \in StoredKeys : Kept(k)
          /\ Moves(h, "read", "respond") =>
                handlers'[h].out.value =
                    IF "latestGroups" \in DOMAIN storage
                    THEN storage.latestGroups
                    ELSE [generatedAt |-> Null, groups |-> EmptyGroups]
          /\ Moves(h, "respond", "done") =>
                /\ handlers'[h].resp.ok
                /\ handlers'[h].resp.data = handlers[h].out.value]_vars

\* C11 witness: the read answered with a computed snapshot, which is still the
\* one stored
ReadStoredSnapshot ==
    \E h \in HandlersOf("GET_LATEST_GROUPS") :
        /\ handlers[h].pc = "done"
        /\ handlers[h].resp.ok
        /\ handlers[h].resp.data.generatedAt # Null
        /\ handlers[h].resp.data.groups # EmptyGroups
        /\ "latestGroups" \in DOMAIN storage
        /\ storage.latestGroups = handlers[h].resp.data

(***************************************************************************)
(* Properties of groupSummaries (SpecGroup)                                *)
(***************************************************************************)
Returned_groupSummaries == result.fn = "groupSummaries"

\* the records of a group set
Records(groups) ==
    UNION {{groups[k][i] : i \in DOMAIN groups[k]} : k \in DOMAIN groups}

Inputs(summaries) == {summaries[j] : j \in DOMAIN summaries}

\* C5: no category of the group set groupSummaries returns is empty.
NoEmptyCategory ==
    Returned_groupSummaries =>
        \A k \in DOMAIN result.ret.value : Len(result.ret.value[k]) > 0

\* C6: every record of the group set groupSummaries returns is one of the
\* summaries it was given.
EveryRecordIsAnInput ==
    Returned_groupSummaries =>
        Records(result.ret.value) \subseteq Inputs(call.summaries)

\* the text the code reads off the outcome of languageModel.prompt
AnswerText(p) ==
    IF p.kind = "string" THEN p.text
    ELSE IF p.kind = "object" /\ "output" \in DOMAIN p.props /\ Truthy(p.props.output)
         THEN p.props.output.text
    ELSE EmptyString

\* the text is no valid JSON once its code fences are removed
NotJson(t) == t = EmptyString \/ t.json = Throws

\* the parsed value has no groups object
NoGroupsObject(v) ==
    \/ v.kind # "object"
    \/ "groups" \notin DOMAIN v.props
    \/ v.props.groups.kind \notin {"object", "array"}

\* a null among the items of a category (reading its url throws)
NullItem(v) ==
    /\ v.kind = "object" /\ "groups" \in DOMAIN v.props /\ v.props.groups.kind = "object"
    /\ \E k \in DOMAIN v.props.groups.props :
          /\ v.props.groups.props[k].kind = "array"
          /\ \E i \in DOMAIN v.props.groups.props[k].items :
                v.props.groups.props[k].items[i] = NullValue

\* the groups object keeps no category: none of its values is an array, but for
\* one under the key '__proto__', which line 140 makes the prototype of the result
\* and no key of it
NoCategoryKept(v) ==
    /\ v.kind = "object" /\ "groups" \in DOMAIN v.props /\ v.props.groups.kind = "object"
    /\ \A k \in DOMAIN v.props.groups.props :
          v.props.groups.props[k].kind = "array" => k = "__proto__"

\* the AI grouping step fails: no language model, the prompt throws, the answer is
\* no valid JSON, the parsed value has no groups object, mapping an item throws,
\* or no category is kept
AIGroupingFails(c) ==
    \/ c.languageModel = NullValue
    \/ c.prompt = Throws
    \/ NotJson(AnswerText(c.prompt))
    \/ NoGroupsObject(AnswerText(c.prompt).json)
    \/ NullItem(AnswerText(c.prompt).json)
    \/ NoCategoryKept(AnswerText(c.prompt).json)

\* C7: when the AI grouping step fails, groupSummaries returns, without throwing,
\* exactly the static keyword grouping (groupSummariesMock) of the same summaries.
FailedAIFallsBackToKeywords ==
    (Returned_groupSummaries /\ AIGroupingFails(call)) =>
        /\ ~result.ret.threw
        /\ result.ret.value = groupSummariesMock(call.summaries)

\* C7 witness: the model answered with text that is no JSON and the tabs were
\* grouped by keyword
BadJsonFellBack ==
    /\ Returned_groupSummaries
    /\ call.languageModel = Instance
    /\ call.prompt = StringValue(AnswerBadJson)
    /\ call.summaries = ListThree
    /\ DOMAIN result.ret.value = {"Research", "Shopping"}

CategoryOrder == <<"Research", "Shopping", "Entertainment", "Work">>
WordsOf(c) ==
    CASE c = "Research" -> ResearchWords
      [] c = "Shopping" -> ShoppingWords
      [] c = "Entertainment" -> EntertainmentWords
      [] c = "Work" -> WorkWords

\* the earliest category of the fixed order with a keyword in the lower-cased
\* title + ' ' + summary, Other when there is none
FirstMatch(item) ==
    LET text == toLowerCase(item.title \o <<" ">> \o item.summary)
        hits == {n \in 1..4 : \E w \in WordsOf(CategoryOrder[n]) : includes(text, w)}
    IN  IF hits = {} THEN "Other"
        ELSE CategoryOrder[CHOOSE n \in hits : \A m \in hits : n <= m]

\* the places of a group set where the record x stands
Places(groups, x) ==
    UNION {{<<k, i>> : i \in {j \in DOMAIN groups[k] : groups[k][j] = x}} :
             k \in DOMAIN groups}

\* C8: the fallback puts every item in exactly one of the five categories, the
\* first of Research, Shopping, Entertainment, Work with a keyword in its text,
\* else Other; 'arxiv paper', 'amazon deal', 'youtube video' (untitled) go to
\* Research, Shopping, Entertainment.
FallbackIsFirstMatch ==
    (Returned_groupSummaries /\ call.languageModel = NullValue) =>
        LET g == result.ret.value
            s == call.summaries
        IN  /\ DOMAIN g \subseteq Categories
            /\ \A j \in DOMAIN s :
                  /\ Cardinality(Places(g, s[j])) = 1
                  /\ \E i \in 1..Len(s) : Places(g, s[j]) = {<<FirstMatch(s[j]), i>>}
                  /\ (s[j].title = EmptyString /\ s[j].summary = TextArxiv)
                        => \E i \in 1..Len(s) : <<"Research", i>> \in Places(g, s[j])
                  /\ (s[j].title = EmptyString /\ s[j].summary = TextAmazon)
                        => \E i \in 1..Len(s) : <<"Shopping", i>> \in Places(g, s[j])
                  /\ (s[j].title = EmptyString /\ s[j].summary = TextYoutube)
                        => \E i \in 1..Len(s) : <<"Entertainment", i>> \in Places(g, s[j])

\* C8 witness: the three summaries of the example under titles with a keyword of
\* a later category each ('Shop', 'Game', 'Slack'): every item has keywords of two
\* categories and stands in the earlier one, Research, Shopping, Entertainment
ExampleGrouped ==
    /\ Returned_groupSummaries
    /\ call.languageModel = NullValue
    /\ call.summaries = <<Summary(1, TitleShop, TextArxiv),
                          Summary(2, TitleGame, TextAmazon),
                          Summary(3, TitleSlack, TextYoutube)>>
    /\ \A j \in 1..3 :
          LET text == toLowerCase(call.summaries[j].title \o <<" ">>
                                  \o call.summaries[j].summary)
          IN  /\ test(WordsOf(CategoryOrder[j]), text)
              /\ test(WordsOf(CategoryOrder[j + 1]), text)
    /\ result.ret.value = [Research |-> <<Summary(1, TitleShop, TextArxiv)>>,
                           Shopping |-> <<Summary(2, TitleGame, TextAmazon)>>,
                           Entertainment |-> <<Summary(3, TitleSlack, TextYoutube)>>]

(***************************************************************************)
(* Properties of summarizeTab (SpecSummarize)                              *)
(***************************************************************************)
Returned_summarizeTab == result.fn = "summarizeTab"

\* a non-empty string under property p of the object v
HasText(v, p) ==
    /\ v.kind = "object" /\ p \in DOMAIN v.props
    /\ v.props[p].kind = "string" /\ v.props[p].text # EmptyString

\* the summarizer attempt yields a summary: the capability is there, the page text
\* was read and is not empty, and the answer is a string or carries a summary
SummarizerYields(c) ==
    /\ c.summarizer # NullValue
    /\ c.env.page1.kind = "string" /\ c.env.page1.text # EmptyString
    /\ c.env.summarize.kind = "string" \/ HasText(c.env.summarize, "summary")

\* the language model attempt yields a summary
LanguageModelYields(c) ==
    /\ c.languageModel # NullValue
    /\ c.env.prompt.kind = "string" \/ HasText(c.env.prompt, "output")

Before(calls, a, b) ==
    \A i, j \in DOMAIN calls : (calls[i] = a /\ calls[j] = b) => i < j

Made(calls, a) == \E i \in DOMAIN calls : calls[i] = a

\* C9: summarizeTab never throws; it asks the summarizer before the language
\* model, and the language model only when the summarizer attempt gave no summary;
\* the first attempt that yields decides the result, and when none does the result
\* is 'Summary for ' followed by the title ('Untitled' for a tab without one).
SummarizeFallsThroughInOrder ==
    Returned_summarizeTab =>
        LET r == result.ret
            title == IF call.tab.title = EmptyString THEN Untitled ELSE call.tab.title
        IN  /\ ~r.threw
            /\ Before(r.calls, "summarize", "prompt")
            /\ Made(r.calls, "summarize") => call.summarizer # NullValue
            /\ Made(r.calls, "prompt") =>
                  (call.languageModel # NullValue /\ ~SummarizerYields(call))
            /\ (SummarizerYields(call) /\ call.env.summarize.kind = "string")
                  => r.value = call.env.summarize.text
            /\ (SummarizerYields(call) /\ call.env.summarize.kind = "object")
                  => r.value = call.env.summarize.props.summary.text
            /\ (~SummarizerYields(call) /\ LanguageModelYields(call)
                  /\ call.env.prompt.kind = "string")
                  => r.value = trim(call.env.prompt.text)
            /\ (~SummarizerYields(call) /\ ~LanguageModelYields(call))
                  => r.value = SummaryFor \o title

\* C9 witness: both capabilities were asked, both calls threw, and the untitled
\* tab got the static summary
BothAttemptsThrew ==
    /\ Returned_summarizeTab
    /\ call.tab = TabB
    /\ call.env.summarize = Throws /\ call.env.prompt = Throws
    /\ result.ret.calls = <<"executeScript", "summarize", "executeScript", "prompt">>
    /\ result.ret.value = SummaryFor \o Untitled

(***************************************************************************)
(* Properties of one PROCESS_TABS command (SpecProcess)                    *)
(***************************************************************************)
\* neither self.ai nor chrome.aiOriginTrial offers the API named
Absent(globals, api) ==
    /\ globals.ai.kind = "null" \/ api \notin DOMAIN globals.ai.props
    /\ globals.aiOriginTrial.kind = "null" \/ api \notin DOMAIN globals.aiOriginTrial.props

\* the command under study has answered
Answered == handlers # <<>> /\ handlers[1].pc = "done"

\* C10: whatever the summarizer, the language model and the page-text access do
\* (work, are absent, throw), PROCESS_TABS answers {ok: true, data: snapshot} and
\* that snapshot is what latestGroups holds; without both AI capabilities every
\* summary is the static one.
ProcessTabsNeverFails ==
    /\ handlers # <<>> => handlers[1].pc # "respond" \/ ~handlers[1].out.threw
    /\ Answered =>
        /\ handlers[1].resp.ok
        /\ DOMAIN handlers[1].resp.data = {"generatedAt", "groups"}
        /\ handlers[1].resp.data.generatedAt = now
        /\ "latestGroups" \in DOMAIN storage
        /\ storage.latestGroups = handlers[1].resp.data
        /\ (Absent(call.world.globals, "summarizer")
              /\ Absent(call.world.globals, "languageModel"))
              => /\ DOMAIN handlers[1].resp.data.groups \subseteq Categories
                 /\ \A x \in Records(handlers[1].resp.data.groups) :
                       x.summary = SummaryFor \o
                           (IF x.title = EmptyString THEN Untitled ELSE x.title)

\* C10 witness: creating the summarizer threw, the language model and the page
\* text were out of reach, and the two ordinary tabs were still grouped and stored
ProcessedWithoutCollaborators ==
    /\ Answered
    /\ handlers[1].resp.ok
    /\ resolveAISummarizerAPI(call.world.globals) = Api(Available(TextReadily), Throws)
    /\ call.world.env.page1 = Throws
    /\ call.world.env.prompt = Throws
    /\ call.world.groupPrompt = Throws
    /\ Cardinality(Records(storage.latestGroups.groups)) = 2

(***************************************************************************)
(* Properties of overlapping handlers (Spec)                               *)
(***************************************************************************)
\* every handler started has sent its response
AllCompleted == \A h \in DOMAIN handlers : handlers[h].pc = "done"

\* the SAVE_SESSION handlers that answered ok: true
SuccessfulSaves ==
    {h \in DOMAIN handlers : handlers[h].type = "SAVE_SESSION" /\ handlers[h].resp.ok}

\* C12: no lost update under interleaving: once every handler in flight has
\* completed (commands only: no install event has happened), each session record
\* a SAVE_SESSION returned with ok: true is in the stored savedSessions list, and
\* N successful saves have left N entries.
NoLostUpdate ==
    (AllCompleted /\ HandlersOf("onInstalled") = {}) =>
        /\ \A h \in SuccessfulSaves :
              \E i \in DOMAIN SavedSessions(storage) :
                  SavedSessions(storage)[i] = handlers[h].resp.data
        /\ Len(SavedSessions(storage)) = Cardinality(SuccessfulSaves)

=============================================================================
